---- MODULE Spec2Model ----
(***************************************************************************)
(* A model of the interactive terminal UI of r2sql-shell (src/src/tui.ts,  *)
(* class R2SQLTUI) together with the two clients it calls                  *)
(* (src/src/r2sql-client.ts, src/src/iceberg-client.ts).                   *)
(*                                                                         *)
(* The state of the class is held in one variable per field.  Every        *)
(* handler of the class is written as an operator from a state record to   *)
(* a state record (the record has one field per variable), so that a       *)
(* handler that calls other methods is the composition of their operators. *)
(* An action of the model is one event of the event loop: a key event, a   *)
(* timer firing, or the continuation of an await.                          *)
(*                                                                         *)
(* Key delivery.  A key event runs the screen-level binding of the key     *)
(* (screen.key, tui.ts 336-574) and then the listeners the class put on    *)
(* the widget that had the focus when the key arrived (the help box's      *)
(* 'keypress', the search box's 'keypress' and key listeners).  Text that  *)
(* the terminal toolkit itself enters into the query editor or the search  *)
(* box is modelled by the actions EditorInput and SearchBoxInput.          *)
(*                                                                         *)
(* Text is a sequence of one-character strings, so that trim, upper-casing,*)
(* prefix and substring tests are computed as the code computes them.      *)
(***************************************************************************)
EXTENDS Integers, Sequences, FiniteSets, TLC

VARIABLES
    running,              \* FALSE once process.exit has been called
    mode,                 \* R2SQLTUI.mode
    activeTab,            \* R2SQLTUI.activeTab
    focused,              \* screen.focused
    helpVisible,          \* a help box created by showHelp exists
    helpReturn,           \* the element the screen refocuses when the help box is destroyed
    autocompleteVisible,  \* R2SQLTUI.autocompleteVisible
    autocompleteItems,    \* items of autocompleteBox
    editorShown,          \* queryEditor is not hidden
    historyShown,         \* historyList is not hidden
    historyItems,         \* items of historyList (indices into queryHistory it was built from)
    editorValue,          \* queryEditor.getValue()
    queryLabel,           \* label of queryEditor
    queryHistory,         \* R2SQLTUI.queryHistory
    sidebarItems,         \* sidebar.items
    sidebarSelected,      \* sidebar.selected (1-based here; 0 when the list is empty)
    namespaces,           \* R2SQLTUI.namespaces, as a sequence of [ns, tables] in insertion order
    currentNamespace,     \* R2SQLTUI.currentNamespace
    lastResultData,
    lastResultMetadata,
    lastResultSchema,
    lastResponseHeaders,
    lastTableMetadata,
    resultsViewMode,
    resultsDisplayMode,
    resultsContent,       \* content of resultsTable
    resultsLabel,         \* label of resultsTable
    searchActive,
    searchTerm,
    searchMatches,
    currentMatchIndex,
    searchBoxValue,       \* searchBox.getValue()
    searchBoxShown,       \* searchBox is not hidden
    searchTimeout,        \* the timer handle held by triggerSearch (283); 0 is null
    searchTimers,         \* the timers set by triggerSearch that have neither fired nor been cleared
    pendingQueries,       \* sqlClient.executeQuery calls whose await has not resumed
    pendingTables,        \* expandNamespace calls awaiting catalogClient.listTables
    pendingMetadata,      \* showTableSchema calls awaiting catalogClient.getTableMetadata
    pendingLoads,         \* loadNamespacesAndTables calls awaiting the catalog
    pendingCopies,        \* copyToClipboard calls awaiting the exit of the clipboard command
    labelTimers,          \* pending timers of copyToClipboard that rewrite the label (1162-1169)
    historyEnabled,       \* R2SQLTUI.historyEnabled
    historyFile,          \* the queries logged in r2sql-history.txt by this run, in order
    historyWritable,      \* the environment: whether appending to r2sql-history.txt succeeds
    issued,               \* number of requests issued so far (bounds the exploration)
    searchBase,           \* history variable: what the results pane and the store held when search was opened
    expandLog,            \* history variable: per namespace, the list before and after its most recent expand
    lastEvent             \* history variable: the key or reply handled by the most recent step, and what it found

vars == << running, mode, activeTab, focused, helpVisible, helpReturn, autocompleteVisible,
           autocompleteItems,
           editorShown, historyShown, historyItems, editorValue, queryLabel, queryHistory,
           sidebarItems, sidebarSelected, namespaces, currentNamespace,
           lastResultData, lastResultMetadata, lastResultSchema, lastResponseHeaders,
           lastTableMetadata, resultsViewMode, resultsDisplayMode, resultsContent,
           resultsLabel, searchActive, searchTerm, searchMatches, currentMatchIndex,
           searchBoxValue, searchBoxShown, searchTimeout, searchTimers, pendingQueries,
           pendingTables,
           pendingMetadata, pendingLoads, pendingCopies, labelTimers,
           historyEnabled, historyFile, historyWritable, issued,
           searchBase, expandLog, lastEvent >>

(***************************************************************************)
(* Bounds of the exploration.                                              *)
(***************************************************************************)
MaxIssued == 2
MaxKeysIssued == 1
MaxEditorLen == 28

(***************************************************************************)
(* Text.                                                                   *)
(***************************************************************************)
Lowers == << "a","b","c","d","e","f","g","h","i","j","k","l","m",
             "n","o","p","q","r","s","t","u","v","w","x","y","z" >>
Uppers == << "A","B","C","D","E","F","G","H","I","J","K","L","M",
             "N","O","P","Q","R","S","T","U","V","W","X","Y","Z" >>

UpperChar(c) ==
    IF \E i \in 1..Len(Lowers) : Lowers[i] = c
    THEN Uppers[CHOOSE i \in 1..Len(Lowers) : Lowers[i] = c]
    ELSE c

LowerChar(c) ==
    IF \E i \in 1..Len(Uppers) : Uppers[i] = c
    THEN Lowers[CHOOSE i \in 1..Len(Uppers) : Uppers[i] = c]
    ELSE c

toUpperCase(s) == [i \in 1..Len(s) |-> UpperChar(s[i])]
toLowerCase(s) == [i \in 1..Len(s) |-> LowerChar(s[i])]

IsSpace(c) == c \in {" ", "\n", "\t"}

RECURSIVE trimStart(_)
trimStart(s) == IF s # <<>> /\ IsSpace(Head(s)) THEN trimStart(Tail(s)) ELSE s

RECURSIVE trimEnd(_)
trimEnd(s) ==
    IF s # <<>> /\ IsSpace(s[Len(s)]) THEN trimEnd(SubSeq(s, 1, Len(s) - 1)) ELSE s

trim(s) == trimEnd(trimStart(s))

startsWith(s, p) == Len(p) <= Len(s) /\ SubSeq(s, 1, Len(p)) = p

includes(s, p) ==
    \E i \in 0..(Len(s) - Len(p)) : SubSeq(s, i + 1, i + Len(p)) = p

kwSELECT == << "S","E","L","E","C","T" >>
SelectAllFrom == << "S","E","L","E","C","T"," ","*"," ","F","R","O","M"," " >>

(***************************************************************************)
(* JSON-like values: rows, schema field descriptors, header maps and the   *)
(* catalog's metadata tree are all values of one shape,                    *)
(*   [t: type tag, s: text of a scalar, kv: <<[k, v], ...>> of an object]. *)
(***************************************************************************)
JNull == [t |-> "null", s |-> <<>>, kv |-> <<>>]
JStr(chars) == [t |-> "string", s |-> chars, kv |-> <<>>]
JNum(digits) == [t |-> "number", s |-> digits, kv |-> <<>>]
JObj(pairs) == [t |-> "object", s |-> <<>>, kv |-> pairs]
JBool(text) == [t |-> "boolean", s |-> text, kv |-> <<>>]
JArr(items) ==
    [t |-> "array", s |-> <<>>, kv |-> [i \in 1..Len(items) |-> [k |-> <<>>, v |-> items[i]]]]
KV(key, value) == [k |-> key, v |-> value]

ObjectObject == << "[","o","b","j","e","c","t"," ","O","b","j","e","c","t","]" >>

\* String(value) of JavaScript
String(v) ==
    CASE v.t = "null" -> << "n","u","l","l" >>
      [] v.t = "object" -> ObjectObject
      [] OTHER -> v.s

(***************************************************************************)
(* What the query service and the catalog can answer (the environment).    *)
(***************************************************************************)
Row(id, val) == JObj(<< KV(<<"i","d">>, JNum(id)), KV(<<"v">>, JStr(val)) >>)

Rows3 == << Row(<<"1">>, <<"a">>), Row(<<"2">>, <<"a","b">>), Row(<<"3">>, <<"c","a","b">>) >>

Field(name, type) == JObj(<< KV(<<"n","a","m","e">>, JStr(name)), KV(<<"t","y","p","e">>, JStr(type)) >>)
SchemaA == << Field(<<"i","d">>, <<"i","n","t">>), Field(<<"v">>, <<"s","t","r">>) >>
SchemaB == << Field(<<"v">>, <<"s","t","r">>) >>

NoSchema == << JNull >>        \* result.schema undefined or null
HasSchema(sch) == sch # NoSchema

HeadersA == JObj(<< KV(<<"c","f","-","r","a","y">>, JStr(<<"a","1">>)) >>)
HeadersB == JObj(<< KV(<<"c","f","-","r","a","y">>, JStr(<<"b","2">>)) >>)
NoHeaders == JNull             \* lastResponseHeaders = null

\* the metadata object QueryResult.metadata (r2sql-client.ts 131-137)
Metadata(rowCount, time) == [present |-> TRUE, rowCount |-> rowCount, executionTime |-> time]
NoMetadata == [present |-> FALSE, rowCount |-> 0, executionTime |-> 0]

\* R2SQLClient.executeQuery: what it returns for the answers the service can give
QueryOk(data, schema, headers, time) ==
    [error |-> "", data |-> data, metadata |-> Metadata(Len(data), time),
     schema |-> schema, headers |-> headers]
QueryError(message) ==
    [error |-> message, data |-> <<>>, metadata |-> NoMetadata,
     schema |-> NoSchema, headers |-> NoHeaders]

QueryResponses ==
    { QueryOk(Rows3, SchemaA, HeadersA, 5),
      QueryOk(<<>>, NoSchema, HeadersB, 2),
      QueryOk(<<>>, SchemaB, HeadersB, 2),
      QueryError("Query failed") }

\* IcebergCatalogClient.getTableMetadata: TableMetadata or null
NoTableMetadata == [present |-> FALSE, schema |-> NoSchema, fullMetadata |-> JNull]
TableMetadata(ns, table) ==
    [present |-> TRUE,
     schema |-> <<Field(table, <<"i","n","t">>)>>,
     fullMetadata |-> JObj(<< KV(<<"l","o","c">>, JStr(ns \o <<"/">> \o table)),
                              KV(<<"u","u","i","d">>, JStr(<<"a","b","c">>)) >>)]

Namespaces == << <<"n","s","a">>, <<"n","s","b">> >>
CatalogTables(ns) ==
    IF ns = <<"n","s","a">> THEN << <<"t">>, <<"u">> >> ELSE << <<"t">> >>

(***************************************************************************)
(* The results pane: its content and its label, as the value that decides  *)
(* the text written (equal values are equal texts).                        *)
(***************************************************************************)
Pane(kind, msg, rows, meta, view, filt) ==
    [kind |-> kind, msg |-> msg, rows |-> rows, meta |-> meta, view |-> view, filt |-> filt]
Label(kind, n, m, view, idx) ==
    [kind |-> kind, n |-> n, m |-> m, view |-> view, idx |-> idx]

Message(kind, msg) == Pane(kind, msg, <<>>, NoMetadata, "", FALSE)
PlainLabel(kind) == Label(kind, 0, 0, "", 0)

setResults(s, content, label) ==
    [s EXCEPT !.resultsContent = content, !.resultsLabel = label]

\* showError (1342-1358)
showError(s, message) ==
    setResults(s, Message("error", message), PlainLabel("error"))

\* displaySchema (900-966)
displaySchema(s) ==
    IF ~HasSchema(s.lastResultSchema)
    THEN setResults(s, Message("text", "No schema information available"), PlainLabel("schema"))
    ELSE setResults(s,
            Pane("schema", "", s.lastResultSchema, NoMetadata, s.resultsViewMode, FALSE),
            Label("schema", 0, 0, s.resultsViewMode, 0))

\* displayHeaders (968-1017)
displayHeaders(s) ==
    IF s.lastResponseHeaders = NoHeaders
    THEN setResults(s, Message("text", "No response headers available"), PlainLabel("headers"))
    ELSE setResults(s,
            Pane("headers", "", <<s.lastResponseHeaders>>, NoMetadata, s.resultsViewMode, FALSE),
            Label("headers", 0, 0, s.resultsViewMode, 0))

\* displayTableMetadata (1019-1035); the JSON dump does not depend on the view mode
displayTableMetadata(s) ==
    IF ~s.lastTableMetadata.present \/ s.lastTableMetadata.fullMetadata = JNull
    THEN setResults(s, Message("text", "No table metadata available"), PlainLabel("metadata"))
    ELSE setResults(s,
            Pane("metadata", "", <<s.lastTableMetadata.fullMetadata>>, NoMetadata, "", FALSE),
            Label("metadata", 0, 0, s.resultsViewMode, 0))

\* the data branch of displayResults (804-897)
\* the rendering of rows throws a TypeError when it reads the columns of a row that is
\* null: Object.keys(data[0]) (819), row[col] for the columns of the first row (848, 869)
renderThrows(data) ==
    /\ Len(data) > 0
    /\ \/ data[1].t = "null"
       \/ data[1].kv # <<>> /\ \E i \in 1..Len(data) : data[i].t = "null"

\* an exception no handler of the class catches ends the process
uncaughtException(s) == [s EXCEPT !.running = FALSE]

displayData(s, data, metadata, isFiltered) ==
    IF Len(data) = 0
    THEN setResults(s, Pane("norows", "", <<>>, metadata, "", FALSE), PlainLabel("rows0"))
    ELSE IF renderThrows(data)
    THEN uncaughtException(s)
    ELSE setResults(s,
            Pane("rows", "", data, metadata, s.resultsViewMode,
                 isFiltered /\ metadata.present),
            Label("rows", Len(data), 0, s.resultsViewMode, 0))

\* a variant of displayResults that stores whatever rows it is given
displayResultsStoring(s, data, metadata, isFiltered) ==
    LET s1 == [s EXCEPT !.lastResultData = data, !.lastResultMetadata = metadata]
    IN  CASE s1.resultsDisplayMode = "schema" -> displaySchema(s1)
          [] s1.resultsDisplayMode = "headers" -> displayHeaders(s1)
          [] s1.resultsDisplayMode = "metadata" -> displayTableMetadata(s1)
          [] OTHER -> displayData(s1, data, metadata, isFiltered)

\* displayResults (785-898)
displayResults(s, data, metadata, isFiltered) ==
    LET s1 == IF ~isFiltered
              THEN [s EXCEPT !.lastResultData = data, !.lastResultMetadata = metadata]
              ELSE s
    IN  CASE s1.resultsDisplayMode = "schema" -> displaySchema(s1)
          [] s1.resultsDisplayMode = "headers" -> displayHeaders(s1)
          [] s1.resultsDisplayMode = "metadata" -> displayTableMetadata(s1)
          [] OTHER -> displayData(s1, data, metadata, isFiltered)

(***************************************************************************)
(* Mode, focus and tabs.                                                   *)
(***************************************************************************)
\* setMode (576-580); the status bar text is a function of the mode
setMode(s, m) == [s EXCEPT !.mode = m]

\* element.focus() of the toolkit
focus(s, el) == [s EXCEPT !.focused = el]

\* updateHistory (1198-1205): one list item per history entry
updateHistory(s) == [s EXCEPT !.historyItems = s.queryHistory]

\* a variant of switchTab that empties the editor when it hides it
switchTabClearing(s, tab) ==
    LET s1 == [s EXCEPT !.activeTab = tab, !.editorShown = FALSE, !.historyShown = FALSE]
    IN  CASE tab = "query" -> focus([s1 EXCEPT !.editorShown = TRUE], "queryEditor")
          [] tab = "history" ->
                updateHistory(focus([s1 EXCEPT !.historyShown = TRUE, !.editorValue = <<>>],
                                    "historyList"))
          [] OTHER -> s1

\* switchTab (582-607)
switchTab(s, tab) ==
    LET s1 == [s EXCEPT !.activeTab = tab, !.editorShown = FALSE, !.historyShown = FALSE]
    IN  CASE tab = "query" -> focus([s1 EXCEPT !.editorShown = TRUE], "queryEditor")
          [] tab = "history" -> updateHistory(focus([s1 EXCEPT !.historyShown = TRUE], "historyList"))
          [] OTHER -> s1

\* hideAutocomplete (1659-1664)
hideAutocomplete(s) ==
    focus([s EXCEPT !.autocompleteVisible = FALSE], "queryEditor")

\* showHelp (1251-1340): a new help box takes the focus; the screen remembers
\* the element to return to when the box is destroyed
showHelp(s) ==
    [s EXCEPT !.helpVisible = TRUE,
              !.helpReturn = IF s.focused = "helpBox" THEN s.helpReturn ELSE s.focused,
              !.focused = "helpBox"]

\* closeHelp (1330-1333): helpBox.destroy(); the screen rewinds the focus only
\* when the destroyed box still has it
closeHelp(s) ==
    [s EXCEPT !.helpVisible = FALSE,
              !.focused = IF s.focused = "helpBox" THEN s.helpReturn ELSE s.focused]

\* quit (2342-2344)
quit(s) == [s EXCEPT !.running = FALSE]

(***************************************************************************)
(* The sidebar tree.  An item is the text of a list entry:                 *)
(*   "▸ name" (collapsed), "▾ name" (expanded), "  ├─ name" / "  └─ name". *)
(***************************************************************************)
CollapsedItem(ns) == [marker |-> "collapsed", name |-> ns]
ExpandedItem(ns) == [marker |-> "expanded", name |-> ns]
TableItem(table, isLast) == [marker |-> IF isLast THEN "last" ELSE "tee", name |-> table]

isCollapsedItem(item) == item.marker = "collapsed"
isExpandedItem(item) == item.marker = "expanded"
isTableItem(item) == item.marker \in {"tee", "last"}
\* plainText.startsWith('  ') (710): only table items are indented
isIndented(item) == item.marker \in {"tee", "last"}

\* this.namespaces.get / set on the insertion-ordered Map
namespacesHas(index, ns) == \E i \in 1..Len(index) : index[i].ns = ns
namespacesGet(index, ns) ==
    IF namespacesHas(index, ns)
    THEN index[CHOOSE i \in 1..Len(index) : index[i].ns = ns].tables
    ELSE <<>>
namespacesSet(index, ns, tables) ==
    IF namespacesHas(index, ns)
    THEN [i \in 1..Len(index) |->
            IF index[i].ns = ns THEN [ns |-> ns, tables |-> tables] ELSE index[i]]
    ELSE Append(index, [ns |-> ns, tables |-> tables])

\* Array.prototype.splice(start, deleteCount, ...items) on a 0-based start
splice(items, start, deleteCount, inserted) ==
    LET st == IF start > Len(items) THEN Len(items) ELSE start
        dc == IF deleteCount > Len(items) - st THEN Len(items) - st ELSE deleteCount
    IN  SubSeq(items, 1, st) \o inserted \o SubSeq(items, st + dc + 1, Len(items))

\* currentItems[index] = ... (678) past the end of the array leaves empty slots before
\* the index; the list widget is handed them as undefined entries
HoleItem == [marker |-> "hole", name |-> <<>>]
leavesHoles(s, index) == index > Len(s.sidebarItems) + 1

\* the second half of expandNamespace (674-691), index is 1-based here
insertTables(s, index, ns, tables) ==
    LET marked == IF index <= Len(s.sidebarItems)
                  THEN [s.sidebarItems EXCEPT ![index] = ExpandedItem(ns)]
                  ELSE s.sidebarItems \o [i \in 1..(index - Len(s.sidebarItems) - 1) |-> HoleItem]
                                      \o <<ExpandedItem(ns)>>
        tableItems == [i \in 1..Len(tables) |-> TableItem(tables[i], i = Len(tables))]
    IN  [s EXCEPT !.sidebarItems = splice(marked, index, 0, tableItems),
                  !.sidebarSelected = index]

\* expandNamespace (664-696) up to its await; needsFetch tells whether it awaits
expandNeedsFetch(s, ns) == Len(namespacesGet(s.namespaces, ns)) = 0

expandNamespace(s, index, ns) ==
    LET s1 == [s EXCEPT !.currentNamespace = ns]
    IN  IF expandNeedsFetch(s, ns)
        THEN [s1 EXCEPT !.pendingTables = @ \cup
                            {[id |-> s.issued + 1, index |-> index, ns |-> ns]},
                        !.issued = @ + 1]
        ELSE insertTables(s1, index, ns, namespacesGet(s.namespaces, ns))

\* expandNamespace after catalogClient.listTables has answered (671-691)
\* the list widget (not part of the sources) is given undefined entries when the index
\* lies past the end of the list: either it accepts them, or its setItems throws at the
\* first of them, after the entries before it, and the catch (692-695) shows the error
expandResume(s, p, tables, accepted) ==
    LET s1 == [s EXCEPT !.namespaces = namespacesSet(@, p.ns, tables),
                        !.pendingTables = @ \ {p}]
    IN  IF leavesHoles(s, p.index) /\ ~accepted
        THEN showError(s1, "Failed to load tables")
        ELSE insertTables(s1, p.index, p.ns, tables)

\* what the list widget may do with the entries expandNamespace hands it
widgetAccepts(s, p) == IF leavesHoles(s, p.index) THEN BOOLEAN ELSE {TRUE}

NoNamespace == <<>>     \* currentNamespace = null

\* the loop of collapseNamespace (706-715)
RECURSIVE countIndented(_, _)
countIndented(items, i) ==
    IF i <= Len(items) /\ isIndented(items[i]) THEN 1 + countIndented(items, i + 1) ELSE 0

\* a variant of collapseNamespace whose loop misses the last table entry
collapseNamespaceShort(s, index) ==
    LET items == s.sidebarItems
        found == countIndented(items, index + 1)
        count == IF found > 0 THEN found - 1 ELSE 0
        marked == [items EXCEPT ![index] = CollapsedItem(items[index].name)]
    IN  [s EXCEPT !.sidebarItems = splice(marked, index, count, <<>>),
                  !.sidebarSelected = index,
                  !.currentNamespace = NoNamespace]

\* collapseNamespace (698-725)
collapseNamespace(s, index) ==
    LET items == s.sidebarItems
        count == countIndented(items, index + 1)
        marked == [items EXCEPT ![index] = CollapsedItem(items[index].name)]
    IN  [s EXCEPT !.sidebarItems = splice(marked, index, count, <<>>),
                  !.sidebarSelected = index,
                  !.currentNamespace = NoNamespace]

\* `${namespace}.${tableName}` (657)
fullName(ns, table) == ns \o <<".">> \o table

\* a variant of insertIntoQuery that appends to the text as typed
insertIntoQueryUntrimmed(s, text) ==
    LET current == s.editorValue
        value == IF trim(current) = <<>> \/ ~startsWith(toUpperCase(trim(current)), kwSELECT)
                 THEN SelectAllFrom \o text
                 ELSE current \o <<" ">> \o text
    IN  switchTab([s EXCEPT !.editorValue = value], "query")

\* insertIntoQuery (727-740)
insertIntoQuery(s, text) ==
    LET current == trim(s.editorValue)
        value == IF current = <<>> \/ ~startsWith(toUpperCase(current), kwSELECT)
                 THEN SelectAllFrom \o text
                 ELSE current \o <<" ">> \o text
    IN  switchTab([s EXCEPT !.editorValue = value], "query")

\* showTableSchema (1360-1400) up to its await
showTableSchema(s, ns, table) ==
    [setResults(s, Message("text", "Loading table schema..."), PlainLabel("loading schema"))
        EXCEPT !.pendingMetadata = @ \cup
                   {[id |-> s.issued + 1, ns |-> ns, table |-> table]},
               !.issued = @ + 1]

\* showTableSchema after catalogClient.getTableMetadata has answered (1368-1395)
tableSchemaResume(s, p, reply) ==
    LET s1 == [s EXCEPT !.lastTableMetadata = reply, !.pendingMetadata = @ \ {p}]
    IN  IF ~reply.present \/ ~HasSchema(reply.schema)
        THEN setResults(s1, Message("text", "No schema information available"), PlainLabel("plain"))
        ELSE setResults(s1,
                Pane("table schema", "", <<JStr(fullName(p.ns, p.table))>> \o reply.schema,
                     NoMetadata, "", FALSE),
                Label("table schema", Len(reply.schema), 0, "", 0))

(***************************************************************************)
(* Query execution.                                                        *)
(***************************************************************************)
\* a variant of executeQuery that leaves insert mode when it starts the request
executeQueryLeavingInsert(s) ==
    LET query == trim(s.editorValue)
    IN  IF query = <<>>
        THEN showError(s, "No query to execute")
        ELSE [setResults(s, Message("text", "Executing query..."), PlainLabel("executing"))
                EXCEPT !.queryLabel = "running",
                       !.mode = "navigation",
                       !.pendingQueries = @ \cup
                           {[id |-> s.issued + 1, query |-> query]},
                       !.issued = @ + 1]

\* executeQuery (742-757) up to its await
executeQuery(s) ==
    LET query == trim(s.editorValue)
    IN  IF query = <<>>
        THEN showError(s, "No query to execute")
        ELSE [setResults(s, Message("text", "Executing query..."), PlainLabel("executing"))
                EXCEPT !.queryLabel = "running",
                       !.pendingQueries = @ \cup
                           {[id |-> s.issued + 1, query |-> query]},
                       !.issued = @ + 1]

\* this.queryHistory.push(query) (770)
historyPush(history, query) == Append(history, query)

\* a variant of saveQueryToHistoryFile that takes the query back out of the in-memory
\* history when the write fails
saveQueryToHistoryFileUndoing(s, query) ==
    IF s.historyWritable
    THEN [s EXCEPT !.historyFile = Append(@, query)]
    ELSE [s EXCEPT !.queryHistory = SubSeq(@, 1, Len(@) - 1)]

\* saveQueryToHistoryFile (2330-2340): a failed append is caught and only logged
saveQueryToHistoryFile(s, query) ==
    IF s.historyWritable
    THEN [s EXCEPT !.historyFile = Append(@, query)]
    ELSE s

\* a variant of queryResume that keeps the stored schema and headers when no row came back
queryResumeKeepsPanels(s, p, reply) ==
    LET s1 == [s EXCEPT !.queryLabel = "", !.pendingQueries = @ \ {p}]
    IN  IF reply.error # ""
        THEN setResults(s1, Message("error", reply.error), PlainLabel("error"))
        ELSE LET s2 == IF Len(reply.data) = 0 THEN s1
                       ELSE [s1 EXCEPT !.lastResultSchema = reply.schema,
                                       !.lastResponseHeaders = reply.headers]
                 s3 == displayResults(s2, reply.data, reply.metadata, FALSE)
             IN  [s3 EXCEPT !.queryHistory = historyPush(@, p.query)]

\* a variant of queryResume that forgets the stored schema and headers on an error
queryResumeForgetting(s, p, reply) ==
    LET s1 == [s EXCEPT !.queryLabel = "", !.pendingQueries = @ \ {p}]
    IN  IF reply.error # ""
        THEN setResults([s1 EXCEPT !.lastResultSchema = NoSchema,
                                   !.lastResponseHeaders = NoHeaders],
                        Message("error", reply.error), PlainLabel("error"))
        ELSE LET s2 == [s1 EXCEPT !.lastResultSchema = reply.schema,
                                  !.lastResponseHeaders = reply.headers]
                 s3 == displayResults(s2, reply.data, reply.metadata, FALSE)
             IN  [s3 EXCEPT !.queryHistory = historyPush(@, p.query)]

\* executeQuery after sqlClient.executeQuery has answered (759-778)
queryResume(s, p, reply) ==
    LET s1 == [s EXCEPT !.queryLabel = "", !.pendingQueries = @ \ {p}]
    IN  IF reply.error # ""
        THEN setResults(s1, Message("error", reply.error), PlainLabel("error"))
        ELSE LET s2 == [s1 EXCEPT !.lastResultSchema = reply.schema,
                                  !.lastResponseHeaders = reply.headers]
                 s3 == displayResults(s2, reply.data, reply.metadata, FALSE)
             IN  IF ~s3.running
                 THEN \* the exception is thrown inside the try: the catch (779-782)
                      showError([s3 EXCEPT !.running = TRUE], "Query execution failed")
                 ELSE LET s4 == [s3 EXCEPT !.queryHistory = historyPush(@, p.query)]
                      IN  IF s4.historyEnabled THEN saveQueryToHistoryFile(s4, p.query)
                          ELSE s4

\* clearQuery (1192-1196)
clearQuery(s) == [s EXCEPT !.editorValue = <<>>]

(***************************************************************************)
(* The text of the data pane: displayResults (819-897) renders the rows it *)
(* is given as styled text.  A style tag is the three elements "{", name,  *)
(* "}" of the text.                                                        *)
(***************************************************************************)
Tagged(style, text) == << "{", style, "}" >> \o text \o << "{", "/", "}" >>
NullMarker == Tagged("gray-fg", << "N","U","L","L" >>)

\* row[col] of a column the row does not have
JUndefined == [t |-> "undefined", s |-> <<>>, kv |-> <<>>]
fieldOf(row, col) ==
    IF \E i \in 1..Len(row.kv) : row.kv[i].k = col
    THEN row.kv[CHOOSE i \in 1..Len(row.kv) : row.kv[i].k = col].v
    ELSE JUndefined

\* JSON.stringify(value) without indentation
RECURSIVE stringify(_)
RECURSIVE stringifyEntries(_, _)
stringifyEntries(kv, isArray) ==
    IF kv = <<>> THEN <<>>
    ELSE (IF isArray THEN <<>> ELSE << "\"" >> \o kv[1].k \o << "\"", ":" >>)
         \o stringify(kv[1].v)
         \o (IF Len(kv) > 1 THEN << "," >> ELSE <<>>)
         \o stringifyEntries(Tail(kv), isArray)
stringify(v) ==
    CASE v.t = "null" -> << "n","u","l","l" >>
      [] v.t = "string" -> << "\"" >> \o v.s \o << "\"" >>
      [] v.t = "object" -> << "{" >> \o stringifyEntries(v.kv, FALSE) \o << "}" >>
      [] v.t = "array" -> << "[" >> \o stringifyEntries(v.kv, TRUE) \o << "]" >>
      [] OTHER -> v.s

isDigit(c) == c \in {"0","1","2","3","4","5","6","7","8","9"}
digitsAt(text, i, n) == i + n - 1 <= Len(text) /\ \A j \in i..(i + n - 1) : isDigit(text[j])
charAt(text, i, c) == i <= Len(text) /\ text[i] = c

\* looksLikeTimestamp (2317-2328)
looksLikeTimestamp(str) ==
    \/ /\ digitsAt(str, 1, 4) /\ charAt(str, 5, "-") /\ digitsAt(str, 6, 2)
       /\ charAt(str, 8, "-") /\ digitsAt(str, 9, 2)
    \/ /\ digitsAt(str, 1, 2) /\ charAt(str, 3, "/") /\ digitsAt(str, 4, 2)
       /\ charAt(str, 6, "/") /\ digitsAt(str, 7, 4)
    \/ \E i \in 1..Len(str) :
          /\ str[i] = "T" /\ digitsAt(str, i + 1, 2) /\ charAt(str, i + 3, ":")
          /\ digitsAt(str, i + 4, 2) /\ charAt(str, i + 6, ":") /\ digitsAt(str, i + 7, 2)
    \/ Len(str) \in 10..13 /\ digitsAt(str, 1, Len(str))

\* String.prototype.substring(0, end)
substring0(text, end) ==
    SubSeq(text, 1, IF end < 0 THEN 0 ELSE IF end > Len(text) THEN Len(text) ELSE end)

Ellipsis == << ".",".","." >>

\* formatValueWithColor (2278-2315)
formatValueWithColor(value) ==
    CASE value.t \in {"null", "undefined"} -> NullMarker
      [] value.t = "number" -> Tagged("yellow-fg", value.s)
      [] value.t = "boolean" ->
            Tagged(IF value.s = << "t","r","u","e" >> THEN "green-fg" ELSE "red-fg", value.s)
      [] value.t = "string" ->
            IF looksLikeTimestamp(value.s) THEN Tagged("cyan-fg", value.s)
            ELSE IF Len(value.s) > 100 THEN substring0(value.s, 97) \o Ellipsis
            ELSE value.s
      [] OTHER -> Tagged("magenta-fg", stringify(value))

\* displayValue.replace(/\{[^}]+\}/g, '') (871)
RECURSIVE stripTags(_)
stripTags(text) ==
    IF text = <<>> THEN <<>>
    ELSE IF /\ text[1] = "{"
            /\ \E j \in 3..Len(text) : text[j] = "}" /\ \A k \in 2..(j - 1) : text[k] # "}"
         THEN LET j == CHOOSE j \in 3..Len(text) :
                            text[j] = "}" /\ \A k \in 2..(j - 1) : text[k] # "}"
              IN  stripTags(SubSeq(text, j + 1, Len(text)))
         ELSE << text[1] >> \o stripTags(Tail(text))

blanks(n) == [i \in 1..n |-> " "]
padEnd(text, n) == text \o blanks(IF n > Len(text) THEN n - Len(text) ELSE 0)

\* Object.keys(data[0]) (819)
columnsOf(data) == [i \in 1..Len(data[1].kv) |-> data[1].kv[i].k]

\* the width of a column of the table layout (861)
columnWidthOf(width, columns) == (width - 4) \div Len(columns)

\* a variant of the cell of the table layout that formats the shortened text of every value
tableCellShortened(value, columnWidth) ==
    LET displayValue == formatValueWithColor(value)
        plainValue == stripTags(displayValue)
        shown == IF Len(plainValue) > columnWidth - 1
                 THEN formatValueWithColor(
                        JStr(substring0(plainValue, columnWidth - 4) \o Ellipsis))
                 ELSE displayValue
        padding == IF columnWidth - Len(plainValue) > 0 THEN columnWidth - Len(plainValue) ELSE 0
    IN  shown \o blanks(padding)

\* one cell of the table layout (868-880)
tableCell(value, columnWidth) ==
    LET displayValue == formatValueWithColor(value)
        plainValue == stripTags(displayValue)
        shown == IF Len(plainValue) > columnWidth - 1
                 THEN formatValueWithColor(
                        IF value.t = "null" THEN JNull
                        ELSE JStr(substring0(plainValue, columnWidth - 4) \o Ellipsis))
                 ELSE displayValue
        padding == IF columnWidth - Len(plainValue) > 0 THEN columnWidth - Len(plainValue) ELSE 0
    IN  shown \o blanks(padding)

\* the header of the table layout (869-871): one cell per column
tableHeader(data, width) ==
    LET columns == columnsOf(data)
    IN  [c \in 1..Len(columns) |->
            substring0(padEnd(columns[c], columnWidthOf(width, columns)),
                       columnWidthOf(width, columns))]

\* the rows of the table layout (867-883): one sequence of cells per row
tableRows(data, width) ==
    LET columns == columnsOf(data)
    IN  [i \in 1..Len(data) |->
            [c \in 1..Len(columns) |->
                tableCell(fieldOf(data[i], columns[c]), columnWidthOf(width, columns))]]

\* Math.max(...columns.map(c => c.length)) (849); -Infinity pads nothing
maxKeyLength(columns) ==
    IF columns = <<>> THEN 0
    ELSE CHOOSE n \in {Len(columns[c]) : c \in 1..Len(columns)} :
            \A c \in 1..Len(columns) : Len(columns[c]) <= n

\* the lines of the list layout (845-858): for every row a header line, one line per
\* column and an empty line
RECURSIVE listLinesFrom(_, _, _)
listLinesFrom(data, columns, i) ==
    IF i > Len(data) THEN <<>>
    ELSE << [kind |-> "header", row |-> i, key |-> <<>>, value |-> <<>>] >>
         \o [c \in 1..Len(columns) |->
               [kind |-> "field", row |-> i,
                key |-> padEnd(columns[c], maxKeyLength(columns)),
                value |-> formatValueWithColor(fieldOf(data[i], columns[c]))]]
         \o << [kind |-> "blank", row |-> i, key |-> <<>>, value |-> <<>>] >>
         \o listLinesFrom(data, columns, i + 1)
listLines(data) == listLinesFrom(data, columnsOf(data), 1)

(***************************************************************************)
(* Copying to the clipboard.                                               *)
(***************************************************************************)
\* whether copyToClipboard finds a text to copy (1092-1127).  JSON.stringify gives the
\* text "null" for a null and no text for an undefined value: a schema that is absent
\* may be either, the headers and the table metadata are null when absent
copyTexts(s) ==
    CASE s.resultsDisplayMode = "data" -> {Len(s.lastResultData) > 0}
      [] s.resultsDisplayMode = "schema" ->
            IF HasSchema(s.lastResultSchema) THEN {TRUE} ELSE {TRUE, FALSE}
      [] OTHER -> {TRUE}

\* copyToClipboard (1090-1150) up to the await of the clipboard command's exit
copyToClipboard(s, format, hasText) ==
    IF s.resultsDisplayMode = "data" /\ format = "markdown" /\ renderThrows(s.lastResultData)
    THEN showError(s, "Failed to copy to clipboard")
    ELSE IF ~hasText
    THEN showError(s, "No data to copy")
    ELSE [s EXCEPT !.pendingCopies = @ \cup {[id |-> s.issued + 1, format |-> format]},
                   !.issued = @ + 1]

\* the label the timer of copyToClipboard writes (1163-1167)
timerLabel(s) ==
    Label(IF s.resultsDisplayMode = "data" THEN "rows"
          ELSE IF s.resultsDisplayMode = "schema" THEN "rows schema"
          ELSE IF s.resultsDisplayMode = "headers" THEN "rows headers"
          ELSE "rows metadata",
          Len(s.lastResultData), 0, s.resultsViewMode, 0)

\* copyToClipboard after the command has exited (1152-1174)
copyResume(s, p, exitCode) ==
    LET s1 == [s EXCEPT !.pendingCopies = @ \ {p}]
    IN  IF exitCode = 0
        THEN [s1 EXCEPT !.resultsLabel = PlainLabel(IF p.format = "json" THEN "copied json"
                                                    ELSE "copied markdown"),
                        !.labelTimers = @ + 1]
        ELSE showError(s1, "Failed to copy to clipboard")

\* the callback of the timer set at 1162
labelTimerFired(s) ==
    [s EXCEPT !.resultsLabel = timerLabel(s), !.labelTimers = @ - 1]

(***************************************************************************)
(* Search and filter.                                                      *)
(***************************************************************************)
\* showSearch (1893-1903)
showSearch(s) ==
    focus([s EXCEPT !.searchActive = TRUE, !.searchTerm = <<>>, !.searchMatches = <<>>,
                    !.currentMatchIndex = 0, !.searchBoxValue = <<>>,
                    !.searchBoxShown = TRUE],
          "searchBox")

\* the re-rendering of the stored result for the current display mode
\* (closeSearch 1914-1923, filterResults 1953-1962)
restoreFullResults(s) ==
    CASE s.resultsDisplayMode = "data" ->
            displayResults(s, s.lastResultData, s.lastResultMetadata, FALSE)
      [] s.resultsDisplayMode = "schema" -> displaySchema(s)
      [] s.resultsDisplayMode = "headers" -> displayHeaders(s)
      [] OTHER -> displayTableMetadata(s)

\* closeSearch (1905-1927)
closeSearch(s) ==
    focus(restoreFullResults(
            [s EXCEPT !.searchActive = FALSE, !.searchTerm = <<>>, !.searchMatches = <<>>,
                      !.currentMatchIndex = 0, !.searchBoxValue = <<>>,
                      !.searchBoxShown = FALSE]),
          "resultsTable")

\* indices (1-based here, in order) from i on at which the filter callback returned true
RECURSIVE matchIndices(_, _)
matchIndices(isMatch, i) ==
    IF i > Len(isMatch) THEN <<>>
    ELSE (IF isMatch[i] THEN <<i>> ELSE <<>>) \o matchIndices(isMatch, i + 1)

selectAt(seq, idx) == [j \in 1..Len(idx) |-> seq[idx[j]]]

countOf(text, c) == Cardinality({i \in 1..Len(text) : text[i] = c})
firstOf(text, c) == CHOOSE i \in 1..Len(text) : text[i] = c /\ \A j \in 1..(i - 1) : text[j] # c

\* the column:value syntax (1975-1984): a filter only when split(':') gives two parts
hasColumnFilter(term) == countOf(term, ":") = 1
filterColumn(term) == toLowerCase(trim(SubSeq(term, 1, firstOf(term, ":") - 1)))
filterValue(term) == toLowerCase(trim(SubSeq(term, firstOf(term, ":") + 1, Len(term))))

\* a variant of the row test that searches every value for the filter value when no column is named
rowMatchesFallback(row, term) ==
    IF hasColumnFilter(term)
       /\ \E i \in 1..Len(row.kv) : toLowerCase(row.kv[i].k) = filterColumn(term)
    THEN \E i \in 1..Len(row.kv) :
            /\ toLowerCase(row.kv[i].k) = filterColumn(term)
            /\ row.kv[i].v.t # "null"
            /\ includes(toLowerCase(String(row.kv[i].v)), filterValue(term))
    ELSE LET text == IF hasColumnFilter(term) THEN filterValue(term) ELSE toLowerCase(term)
         IN  \E i \in 1..Len(row.kv) :
                \/ includes(toLowerCase(row.kv[i].k), text)
                \/ /\ row.kv[i].v.t # "null"
                   /\ includes(toLowerCase(String(row.kv[i].v)), text)

\* a variant of the row test that also searches the text "null" of a null value
rowMatchesNulls(row, term) ==
    IF hasColumnFilter(term)
    THEN \E i \in 1..Len(row.kv) :
            /\ toLowerCase(row.kv[i].k) = filterColumn(term)
            /\ row.kv[i].v.t # "null"
            /\ includes(toLowerCase(String(row.kv[i].v)), filterValue(term))
    ELSE \E i \in 1..Len(row.kv) :
            \/ includes(toLowerCase(row.kv[i].k), toLowerCase(term))
            \/ includes(toLowerCase(String(row.kv[i].v)), toLowerCase(term))

\* the row test of the data branch (1990-2023)
rowMatches(row, term) ==
    IF hasColumnFilter(term)
    THEN \E i \in 1..Len(row.kv) :
            /\ toLowerCase(row.kv[i].k) = filterColumn(term)
            /\ \A j \in 1..(i - 1) : toLowerCase(row.kv[j].k) # filterColumn(term)
            /\ row.kv[i].v.t # "null"
            /\ includes(toLowerCase(String(row.kv[i].v)), filterValue(term))
    ELSE \E i \in 1..Len(row.kv) :
            \/ includes(toLowerCase(row.kv[i].k), toLowerCase(term))
            \/ /\ row.kv[i].v.t # "null"
               /\ includes(toLowerCase(String(row.kv[i].v)), toLowerCase(term))

\* the field test of the schema branch (2040-2051); descriptor values here are scalars
fieldMatches(col, term) ==
    \E i \in 1..Len(col.kv) :
        /\ col.kv[i].v.t # "null"
        /\ \/ includes(toLowerCase(col.kv[i].k), toLowerCase(term))
           \/ includes(toLowerCase(String(col.kv[i].v)), toLowerCase(term))

\* the entry test of the headers branch (2068-2075)
headerMatches(entry, term) ==
    \/ includes(toLowerCase(entry.k), toLowerCase(term))
    \/ includes(toLowerCase(String(entry.v)), toLowerCase(term))

\* filterJsonObject (2104-2143); the term is already lower-cased by the caller
RECURSIVE filterJsonObject(_, _)
RECURSIVE filterEntries(_, _, _)
RECURSIVE filterEntriesWhole(_, _, _)
\* a variant of filterEntries that keeps a key with its whole value when something in it matches
filterEntriesWhole(pairs, lowered, isArray) ==
    IF pairs = <<>> THEN <<>>
    ELSE LET e == Head(pairs)
             rest == filterEntriesWhole(Tail(pairs), lowered, isArray)
             sub == filterJsonObject(e.v, lowered)
         IN  IF ~isArray /\ includes(toLowerCase(e.k), lowered)
             THEN <<e>> \o rest
             ELSE IF sub # JNull THEN <<e>> \o rest ELSE rest

filterEntries(pairs, lowered, isArray) ==
    IF pairs = <<>> THEN <<>>
    ELSE LET e == Head(pairs)
             rest == filterEntries(Tail(pairs), lowered, isArray)
             sub == filterJsonObject(e.v, lowered)
         IN  IF ~isArray /\ includes(toLowerCase(e.k), lowered)
             THEN <<e>> \o rest
             ELSE IF sub # JNull THEN <<KV(e.k, sub)>> \o rest ELSE rest

filterJsonObject(obj, lowered) ==
    CASE obj.t = "null" -> JNull
      [] obj.t \in {"string", "number", "boolean"} ->
            IF includes(toLowerCase(String(obj)), lowered) THEN obj ELSE JNull
      [] obj.t \in {"array", "object"} ->
            LET kept == filterEntries(obj.kv, lowered, obj.t = "array")
            IN  IF kept = <<>> THEN JNull ELSE [obj EXCEPT !.kv = kept]
      [] OTHER -> JNull

\* displaySchemaFiltered (2145-2207)
displaySchemaFiltered(s, filteredSchema) ==
    LET total == Len(s.lastResultSchema)
    IN  IF Len(filteredSchema) = 0
        THEN setResults(s, Message("text", "No matching schema fields"),
                        Label("filtered schema", 0, total, "", 0))
        ELSE setResults(s,
                Pane("schema", "", filteredSchema, NoMetadata, s.resultsViewMode, TRUE),
                Label("filtered schema", Len(filteredSchema), total, s.resultsViewMode, 0))

\* displayHeadersFiltered (2209-2258)
displayHeadersFiltered(s, filteredHeaders) ==
    LET total == Len(s.lastResponseHeaders.kv)
    IN  IF Len(filteredHeaders.kv) = 0
        THEN setResults(s, Message("text", "No matching headers"),
                        Label("filtered headers", 0, total, "", 0))
        ELSE setResults(s,
                Pane("headers", "", <<filteredHeaders>>, NoMetadata, s.resultsViewMode, TRUE),
                Label("filtered headers", Len(filteredHeaders.kv), total, s.resultsViewMode, 0))

\* displayMetadataFiltered (2260-2276)
displayMetadataFiltered(s, filteredMetadata) ==
    IF filteredMetadata = JNull \/ Len(filteredMetadata.kv) = 0
    THEN setResults(s, Message("text", "No matching metadata fields"),
                    Label("filtered metadata", 0, 0, "", 0))
    ELSE setResults(s,
            Pane("metadata", "", <<filteredMetadata>>, NoMetadata, "", TRUE),
            Label("filtered metadata", 0, 0, s.resultsViewMode, 0))

\* the label the data branch sets after displaying the filtered rows (2032-2035)
filteredDataLabel(s, shown, matches) ==
    Label("filtered rows", shown, Len(s.lastResultData), s.resultsViewMode,
          IF matches > 0 THEN s.currentMatchIndex + 1 ELSE 0)

\* the branch of filterResults for an empty or whitespace-only term (1945-1966)
filterResultsEmpty(s) ==
    restoreFullResults([s EXCEPT !.searchMatches = <<>>, !.currentMatchIndex = 0])

\* the index filterResults gives the current match after recomputing (2027, 2055, 2080)
firstMatchIndex(matches) == IF Len(matches) > 0 THEN 0 ELSE -1

\* filterResults (1943-2102); searchMatches holds 0-based indices as in the code
filterResults(s) ==
    IF s.searchTerm = <<>> \/ trim(s.searchTerm) = <<>>
    THEN filterResultsEmpty(s)
    ELSE
    CASE s.resultsDisplayMode = "data" /\ \E j \in 1..Len(s.lastResultData) :
                                             s.lastResultData[j].t = "null" ->
            \* Object.keys(row) (1995) or Object.entries(row) (2006) of a null row throws
            uncaughtException(s)
      [] s.resultsDisplayMode = "data" ->
            LET isMatch == [j \in 1..Len(s.lastResultData) |-> rowMatches(s.lastResultData[j], s.searchTerm)]
                idx == matchIndices(isMatch, 1)
                s1 == [s EXCEPT !.searchMatches = [j \in 1..Len(idx) |-> idx[j] - 1],
                                !.currentMatchIndex = firstMatchIndex(idx)]
                s2 == displayResults(s1, selectAt(s.lastResultData, idx),
                                     s.lastResultMetadata, TRUE)
            IN  [s2 EXCEPT !.resultsLabel = filteredDataLabel(s2, Len(idx), Len(idx))]
      [] s.resultsDisplayMode = "schema" ->
            IF HasSchema(s.lastResultSchema)
            THEN LET isMatch == [j \in 1..Len(s.lastResultSchema) |-> fieldMatches(s.lastResultSchema[j], s.searchTerm)]
                     idx == matchIndices(isMatch, 1)
                 IN  displaySchemaFiltered(
                        [s EXCEPT !.searchMatches = [j \in 1..Len(idx) |-> idx[j] - 1],
                                  !.currentMatchIndex = firstMatchIndex(idx)],
                        selectAt(s.lastResultSchema, idx))
            ELSE displaySchema(s)
      [] s.resultsDisplayMode = "headers" ->
            IF s.lastResponseHeaders # NoHeaders
            THEN LET isMatch == [j \in 1..Len(s.lastResponseHeaders.kv) |-> headerMatches(s.lastResponseHeaders.kv[j], s.searchTerm)]
                     idx == matchIndices(isMatch, 1)
                 IN  displayHeadersFiltered(
                        [s EXCEPT !.searchMatches = [j \in 1..Len(idx) |-> idx[j] - 1],
                                  !.currentMatchIndex = firstMatchIndex(idx)],
                        JObj(selectAt(s.lastResponseHeaders.kv, idx)))
            ELSE displayHeaders(s)
      [] OTHER ->
            IF s.lastTableMetadata.present /\ s.lastTableMetadata.fullMetadata # JNull
            THEN LET filtered == filterJsonObject(s.lastTableMetadata.fullMetadata,
                                                  toLowerCase(s.searchTerm))
                 IN  displayMetadataFiltered(
                        [s EXCEPT !.searchMatches = IF filtered # JNull THEN <<0>> ELSE <<>>,
                                  !.currentMatchIndex = 0],
                        filtered)
            ELSE displayTableMetadata(s)

\* highlightCurrentMatch (1929-1941)
highlightCurrentMatch(s) ==
    LET s1 == filterResults(s)
    IN  IF s1.resultsDisplayMode = "data" /\ Len(s1.searchMatches) > 0
        THEN [s1 EXCEPT !.resultsLabel =
                Label("filtered match", 0, Len(s1.searchMatches), s1.resultsViewMode,
                      s1.currentMatchIndex + 1)]
        ELSE s1

\* no timer handle: let searchTimeout = null (283, 296)
NoTimer == 0

\* the handle setTimeout returns: one that no pending timer has
newTimer(pending) == CHOOSE id \in 1..(Cardinality(pending) + 1) :
                        id \notin pending /\ \A k \in 1..(id - 1) : k \in pending

\* a variant of triggerSearch that sets a timer without clearing the pending one
triggerSearchKeeping(s) ==
    LET id == newTimer(s.searchTimers)
    IN  [s EXCEPT !.searchTimers = s.searchTimers \cup {id}, !.searchTimeout = id]

\* the callback of the timer (292-297), run for the timer id
searchTimerFired(s, id) ==
    LET s1 == filterResults([s EXCEPT !.searchTerm = s.searchBoxValue,
                                      !.searchTimers = @ \ {id}])
    IN  IF s1.running THEN [s1 EXCEPT !.searchTimeout = NoTimer] ELSE s1

\* triggerSearch (285-298): clear the pending timer, set a new one
triggerSearch(s) ==
    LET cleared == IF s.searchTimeout # NoTimer THEN s.searchTimers \ {s.searchTimeout}
                   ELSE s.searchTimers
        id == newTimer(cleared)
    IN  [s EXCEPT !.searchTimers = cleared \cup {id}, !.searchTimeout = id]

(***************************************************************************)
(* Autocomplete: the suggestion list of showAutocomplete and               *)
(* showAutocompleteAuto (the two compute it with the same statements).     *)
(***************************************************************************)
kwFROM == << "F","R","O","M" >>
kwWHERE == << "W","H","E","R","E" >>
kwORDERBY == << "O","R","D","E","R"," ","B","Y" >>
kwLIMIT == << "L","I","M","I","T" >>
Star == << "*" >>

\* this.sqlKeywords (68-72)
sqlKeywords ==
    << kwSELECT, kwFROM, kwWHERE, kwORDERBY, kwLIMIT,
       << "A","N","D" >>, << "O","R" >>, << "N","O","T" >>, << "L","I","K","E" >>,
       << "I","S"," ","N","U","L","L" >>, << "I","S"," ","N","O","T"," ","N","U","L","L" >>,
       << "A","S","C" >>, << "D","E","S","C" >> >>

\* the operators suggested after WHERE (1464) and the directions after ORDER BY (1471)
whereOperators == [i \in 1..6 |-> sqlKeywords[5 + i]]
orderDirections == [i \in 1..2 |-> sqlKeywords[11 + i]]

\* String.prototype.lastIndexOf: the last 0-based position of p in s, -1 when there is none
lastIndexOf(s, p) ==
    LET at == {i \in 0..(Len(s) - Len(p)) : SubSeq(s, i + 1, i + Len(p)) = p}
    IN  IF at = {} THEN -1 ELSE CHOOSE i \in at : \A j \in at : j <= i

\* words[words.length - 1] || '' of text.split(/\s+/) (1408-1409), text being trimmed
currentWordOf(text) ==
    LET spaces == {i \in 1..Len(text) : IsSpace(text[i])}
        last == IF spaces = {} THEN 0 ELSE CHOOSE i \in spaces : \A j \in spaces : j <= i
    IN  SubSeq(text, last + 1, Len(text))

\* getLastKeyword (1641-1657): the keyword whose last occurrence is furthest right
getLastKeyword(text) ==
    LET upperText == toUpperCase(text)
        keywords == << kwSELECT, kwFROM, kwWHERE, kwORDERBY, kwLIMIT >>
        RECURSIVE scan(_, _, _)
        scan(i, lastPos, lastKeyword) ==
            IF i > Len(keywords) THEN lastKeyword
            ELSE LET pos == lastIndexOf(upperText, keywords[i])
                 IN  IF pos > lastPos THEN scan(i + 1, pos, keywords[i])
                     ELSE scan(i + 1, lastPos, lastKeyword)
    IN  scan(1, -1, <<>>)

\* the elements of seq that satisfy the callback, in order (Array.prototype.filter / forEach + push)
RECURSIVE keepWhere(_, _)
keepWhere(seq, keep) ==
    IF seq = <<>> THEN <<>>
    ELSE (IF Head(keep) THEN <<Head(seq)>> ELSE <<>>) \o keepWhere(Tail(seq), Tail(keep))

\* Array.from(new Set(suggestions)): first occurrences, in order
RECURSIVE unique(_)
unique(seq) ==
    IF seq = <<>> THEN <<>>
    ELSE LET init == unique(SubSeq(seq, 1, Len(seq) - 1))
             x == seq[Len(seq)]
         IN  IF \E i \in 1..Len(init) : init[i] = x THEN init ELSE Append(init, x)

\* the part of a word before its first '.', and the part between the first and the second
beforeDot(word) == SubSeq(word, 1, firstOf(word, ".") - 1)
afterDot(word) ==
    LET rest == SubSeq(word, firstOf(word, ".") + 1, Len(word))
    IN  IF countOf(rest, ".") = 0 THEN rest ELSE SubSeq(rest, 1, firstOf(rest, ".") - 1)

\* the branch for a word with a dot (1416-1432): tables of the first namespace of that name
dottedSuggestions(index, word) ==
    LET hits == {i \in 1..Len(index) : toLowerCase(index[i].ns) = toLowerCase(beforeDot(word))}
    IN  IF hits = {} THEN <<>>
        ELSE LET e == index[CHOOSE i \in hits : \A j \in hits : i <= j]
                 names == [j \in 1..Len(e.tables) |-> fullName(e.ns, e.tables[j])]
                 keep == [j \in 1..Len(e.tables) |->
                            startsWith(toLowerCase(e.tables[j]), toLowerCase(afterDot(word)))]
             IN  keepWhere(names, keep)

\* the branch after FROM (1447-1461): per namespace its namespace.table names, then the namespace
RECURSIVE fromSuggestions(_, _)
fromSuggestions(index, word) ==
    IF index = <<>> THEN <<>>
    ELSE LET e == Head(index)
             names == [j \in 1..Len(e.tables) |-> fullName(e.ns, e.tables[j])]
             keep == [j \in 1..Len(e.tables) |->
                        startsWith(toLowerCase(names[j]), toLowerCase(word)) \/ Len(word) = 0]
         IN  keepWhere(names, keep)
             \o (IF startsWith(toLowerCase(e.ns), toLowerCase(word)) THEN <<e.ns>> ELSE <<>>)
             \o fromSuggestions(Tail(index), word)

\* the namespaces and tables of the general branch (1484-1497)
RECURSIVE nameSuggestions(_, _)
nameSuggestions(index, word) ==
    IF index = <<>> THEN <<>>
    ELSE LET e == Head(index)
             names == [j \in 1..Len(e.tables) |-> fullName(e.ns, e.tables[j])]
             keep == [j \in 1..Len(e.tables) |-> startsWith(toLowerCase(names[j]), toLowerCase(word))]
         IN  (IF startsWith(toLowerCase(e.ns), toLowerCase(word)) THEN <<e.ns>> ELSE <<>>)
             \o keepWhere(names, keep)
             \o nameSuggestions(Tail(index), word)

\* keywords of a list that start with the upper-cased word (1464-1475)
keywordsFor(list, word) ==
    keepWhere(list, [j \in 1..Len(list) |-> startsWith(list[j], toUpperCase(word)) \/ word = <<>>])

\* uniqueSuggestions of showAutocomplete (1403-1500)
suggestionsFor(query, index) ==
    LET beforeCursor == trim(query)
        currentWord == currentWordOf(beforeCursor)
        queryUpper == toUpperCase(query)
        hasSelect == includes(queryUpper, kwSELECT)
        hasFrom == includes(queryUpper, kwFROM)
        lastKeyword == getLastKeyword(beforeCursor)
    IN  unique(
          IF countOf(currentWord, ".") > 0 THEN dottedSuggestions(index, currentWord)
          ELSE IF lastKeyword = kwSELECT /\ ~hasFrom
          THEN (IF startsWith(Star, currentWord) \/ currentWord = <<>> THEN <<Star>> ELSE <<>>)
               \o (IF startsWith(kwFROM, toUpperCase(currentWord)) \/ currentWord = <<>>
                   THEN <<kwFROM>> ELSE <<>>)
          ELSE IF lastKeyword = kwFROM \/ (hasSelect /\ hasFrom)
          THEN fromSuggestions(index, currentWord)
          ELSE IF lastKeyword = kwWHERE THEN keywordsFor(whereOperators, currentWord)
          ELSE IF lastKeyword = kwORDERBY THEN keywordsFor(orderDirections, currentWord)
          ELSE keepWhere(sqlKeywords,
                         [j \in 1..Len(sqlKeywords) |->
                            startsWith(toLowerCase(sqlKeywords[j]), toLowerCase(currentWord))
                            \/ currentWord = <<>>])
               \o (IF Len(currentWord) > 0 THEN nameSuggestions(index, currentWord) ELSE <<>>))

\* uniqueSuggestions.slice(0, 15) (1510, 1633)
MaxSuggestions == 15
capped(seq) == SubSeq(seq, 1, IF Len(seq) < MaxSuggestions THEN Len(seq) ELSE MaxSuggestions)

\* showAutocomplete (1402-1516): the box takes the focus
showAutocomplete(s) ==
    LET uniqueSuggestions == suggestionsFor(s.editorValue, s.namespaces)
    IN  IF Len(uniqueSuggestions) = 0 THEN s
        ELSE [s EXCEPT !.autocompleteItems = capped(uniqueSuggestions),
                       !.autocompleteVisible = TRUE,
                       !.focused = "autocompleteBox"]

\* showAutocompleteAuto (1518-1639): the focus stays where it is
showAutocompleteAuto(s) ==
    LET uniqueSuggestions == suggestionsFor(s.editorValue, s.namespaces)
    IN  IF Len(trim(s.editorValue)) = 0 \/ Len(uniqueSuggestions) = 0
        THEN hideAutocomplete(s)
        ELSE [s EXCEPT !.autocompleteItems = capped(uniqueSuggestions),
                       !.autocompleteVisible = TRUE]

\* the start of the last word (1672-1681): the position after the last whitespace character
lastWordStart(query) ==
    LET blank == {i \in 1..Len(query) : IsSpace(query[i])}
    IN  IF blank = {} THEN 0 ELSE CHOOSE i \in blank : \A j \in blank : j <= i

\* the text has the keyword at position i, in any letter case
keywordAt(text, i, keyword) ==
    i >= 1 /\ i + Len(keyword) - 1 <= Len(text)
    /\ toUpperCase(SubSeq(text, i, i + Len(keyword) - 1)) = keyword
blankRun(text, i, n) == n >= 1 /\ i + n - 1 <= Len(text) /\ \A j \in i..(i + n - 1) : IsSpace(text[j])

\* /SELECT\s+(.*?)\s+FROM/i matches at i with k characters for the first \s+ and a
\* group of len characters
selectMatchAt(query, i, k, len) ==
    /\ keywordAt(query, i, kwSELECT)
    /\ blankRun(query, i + 6, k)
    /\ i + 5 + k + len <= Len(query)
    /\ \A j \in (i + 6 + k)..(i + 5 + k + len) : query[j] # "\n"
    /\ \E r \in 1..Len(query) :
          blankRun(query, i + 6 + k + len, r) /\ keywordAt(query, i + 6 + k + len + r, kwFROM)

\* query.match(/SELECT\s+(.*?)\s+FROM/i) (1693): the ways it can match, and its group 1
\* for the leftmost start, the longest first \s+ and the shortest group, in the order
\* the expression is tried
selectMatchSet(query) ==
    { t \in {i \in 1..Len(query) : keywordAt(query, i, kwSELECT)}
              \X (1..Len(query)) \X (0..Len(query)) :
        selectMatchAt(query, t[1], t[2], t[3]) }
selectMatches(query) == selectMatchSet(query) # {}
firstMatch(matches) ==
    CHOOSE t \in matches :
        \A u \in matches :
            \/ t[1] < u[1]
            \/ t[1] = u[1] /\ t[2] > u[2]
            \/ t[1] = u[1] /\ t[2] = u[2] /\ t[3] <= u[3]
groupOf(query, t) == SubSeq(query, t[1] + 6 + t[2], t[1] + 5 + t[2] + t[3])
selectGroup(query) == groupOf(query, firstMatch(selectMatchSet(query)))

\* /SELECT\s+FROM/i matches at i with a blank run of r characters
selectFromAt(text, i, r) ==
    keywordAt(text, i, kwSELECT) /\ blankRun(text, i + 6, r) /\ keywordAt(text, i + 6 + r, kwFROM)

\* newQuery.replace(/SELECT\s+FROM/i, 'SELECT * FROM') (1698): the first match is replaced
replaceSelectFrom(text) ==
    LET n == Len(text)
        hits == {i \in 1..n : \E r \in 1..n : selectFromAt(text, i, r)}
    IN  IF hits = {} THEN text
        ELSE LET i == CHOOSE i \in hits : \A j \in hits : i <= j
                 r == CHOOSE r \in 1..n : selectFromAt(text, i, r)
             IN  SubSeq(text, 1, i - 1)
                 \o << "S","E","L","E","C","T"," ","*"," ","F","R","O","M" >>
                 \o SubSeq(text, i + 10 + r, n)

\* the new text of insertAutocomplete (1667-1705)
completedQuery(query, text) ==
    LET queryUpper == toUpperCase(query)
        beforeLastWord == SubSeq(query, 1, lastWordStart(query))
        newQuery == beforeLastWord \o text
        hasFrom == includes(queryUpper, kwFROM)
        hasSelect == includes(queryUpper, kwSELECT)
        isTableName == includes(text, << "." >>)
    IN  IF hasFrom /\ hasSelect /\ isTableName
        THEN IF selectMatches(query)
                /\ ( trim(selectGroup(query)) = <<>> \/ trim(selectGroup(query)) = kwFROM )
             THEN replaceSelectFrom(newQuery)
             ELSE newQuery
        ELSE IF ~hasSelect /\ isTableName
        THEN SelectAllFrom \o text
        ELSE newQuery

\* insertAutocomplete (1666-1710)
insertAutocomplete(s, text) ==
    hideAutocomplete([s EXCEPT !.editorValue = completedQuery(s.editorValue, text) \o << " " >>])

(***************************************************************************)
(* Loading the catalog (startup and refresh).                              *)
(***************************************************************************)
\* loadNamespacesAndTables (1856-1860) up to the await of listNamespaces
loadNamespacesAndTables(s) ==
    [s EXCEPT !.pendingLoads = @ \cup {[id |-> s.issued + 1, phase |-> "namespaces", nss |-> <<>>]},
              !.issued = @ + 1]

\* the end of loadNamespacesAndTables (1875-1887); tables[i] is what listTables gave for nss[i]
loadTablesResume(s, p, tables) ==
    LET RECURSIVE setAll(_, _)
        setAll(index, i) ==
            IF i > Len(p.nss) THEN index
            ELSE setAll(namespacesSet(index, p.nss[i], tables[i]), i + 1)
    IN  [s EXCEPT !.namespaces = setAll(@, 1),
                  !.sidebarItems = [i \in 1..Len(p.nss) |-> CollapsedItem(p.nss[i])],
                  !.sidebarSelected = IF Len(p.nss) > 0 THEN 1
                                      ELSE IF s.sidebarSelected > 0 THEN 0 ELSE s.sidebarSelected,
                  !.pendingLoads = @ \ {p}]

\* loadNamespacesAndTables after listNamespaces has answered (1860-1873):
\* the index is cleared, then one listTables is awaited per namespace
loadNamespacesResume(s, p, nss) ==
    LET s1 == [s EXCEPT !.namespaces = <<>>]
        q == [p EXCEPT !.phase = "tables", !.nss = nss]
    IN  IF nss = <<>>
        THEN loadTablesResume(s1, p, <<>>)
        ELSE [s1 EXCEPT !.pendingLoads = (@ \ {p}) \cup {q}]

(***************************************************************************)
(* The screen-level key bindings, setupKeyBindings (336-574).              *)
(***************************************************************************)
\* a variant of the escape binding that looks at the focus only, not at the mode
escapeBindingFocusOnly(s) ==
    IF s.autocompleteVisible THEN hideAutocomplete(s)
    ELSE IF s.focused = "queryEditor"
         THEN focus(setMode(s, "navigation"), "sidebar")
         ELSE s

\* escape (338-352)
escapeBinding(s) ==
    IF s.autocompleteVisible THEN hideAutocomplete(s)
    ELSE IF s.mode = "insert" \/ s.focused = "queryEditor"
         THEN focus(setMode(s, "navigation"), "sidebar")
         ELSE s

\* a variant of the quit binding without the test of the mode
quitBindingAnyMode(s) == quit(s)

\* C-c, q (355-359)
quitBinding(s) == IF s.mode = "navigation" THEN quit(s) ELSE s

\* 1 2 3 4 (362-381)
digitBinding(s, d) ==
    IF s.mode # "navigation" THEN s
    ELSE CASE d = 1 -> focus(s, "sidebar")
           [] d = 2 -> switchTab(s, "query")
           [] d = 3 -> focus(s, "resultsTable")
           [] OTHER -> switchTab(s, "history")

\* M-1 M-2 M-3 M-4 (385-388)
altDigitBinding(s, d) ==
    CASE d = 1 -> focus(s, "sidebar")
      [] d = 2 -> switchTab(s, "query")
      [] d = 3 -> focus(s, "resultsTable")
      [] OTHER -> switchTab(s, "history")

\* a variant of the tab listener of the query editor that opens the suggestions
editorTabSuggesting(s) == showAutocomplete(s)

\* tab in the query editor (162-164): the listener only keeps the tab from being inserted
editorTab(s) == s

\* a variant of the i binding without the test of the active tab
insertBindingAnyTab(s) ==
    IF s.mode = "navigation"
    THEN focus(setMode(s, "insert"), "queryEditor")
    ELSE s

\* i (392-398)
insertBinding(s) ==
    IF s.mode = "navigation" /\ s.activeTab = "query"
    THEN focus(setMode(s, "insert"), "queryEditor")
    ELSE s

\* C-e, f5 (403-405)
executeBinding(s) == executeQuery(s)

\* C-l (413-415)
clearBinding(s) == clearQuery(s)

\* x (421-425)
xBinding(s) ==
    IF s.mode = "navigation" /\ s.activeTab = "query" THEN executeQuery(s) ELSE s

\* h, left (428-432)
leftBinding(s) == IF s.mode = "navigation" THEN focus(s, "sidebar") ELSE s

\* onSidebarSelect (633-662)
onSidebarSelect(s) ==
    IF s.sidebarSelected < 1 \/ s.sidebarSelected > Len(s.sidebarItems) THEN s
    ELSE LET item == s.sidebarItems[s.sidebarSelected]
         IN  CASE isCollapsedItem(item) -> expandNamespace(s, s.sidebarSelected, item.name)
               [] isExpandedItem(item) -> collapseNamespace(s, s.sidebarSelected)
               [] isTableItem(item) ->
                    IF s.currentNamespace # NoNamespace
                    THEN showTableSchema(
                            insertIntoQuery(s, fullName(s.currentNamespace, item.name)),
                            s.currentNamespace, item.name)
                    ELSE s
               [] OTHER -> s

\* l, right, enter (434-438)
rightBinding(s) ==
    IF s.mode = "navigation" /\ s.focused = "sidebar" THEN onSidebarSelect(s) ELSE s

\* g and G (463-487); the selection of the history list is not part of the state
jumpBinding(s, toEnd) ==
    IF s.mode = "navigation" /\ s.focused = "sidebar" /\ Len(s.sidebarItems) > 0
    THEN [s EXCEPT !.sidebarSelected = IF toEnd THEN Len(s.sidebarItems) ELSE 1]
    ELSE s

\* r, R (490-494)
refreshBinding(s) == IF s.mode = "navigation" THEN loadNamespacesAndTables(s) ELSE s

\* c and m (528-540)
copyBinding(s, format, hasText) ==
    IF s.mode = "navigation" THEN copyToClipboard(s, format, hasText) ELSE s

\* t (497-506)
viewBinding(s) ==
    IF s.mode = "navigation"
    THEN LET s1 == [s EXCEPT !.resultsViewMode = IF @ = "table" THEN "list" ELSE "table"]
         IN  IF Len(s1.lastResultData) > 0
             THEN displayResults(s1, s1.lastResultData, s1.lastResultMetadata, FALSE)
             ELSE s1
    ELSE s

nextDisplayMode(m) ==
    CASE m = "data" -> "schema"
      [] m = "schema" -> "headers"
      [] m = "headers" -> "metadata"
      [] OTHER -> "data"

\* v (509-525)
displayBinding(s) ==
    IF s.mode = "navigation"
    THEN LET s1 == [s EXCEPT !.resultsDisplayMode = nextDisplayMode(@)]
         IN  displayResults(s1, s1.lastResultData, s1.lastResultMetadata, FALSE)
    ELSE s

\* hasData of the / binding (545-548)
hasData(s) ==
    \/ Len(s.lastResultData) > 0
    \/ HasSchema(s.lastResultSchema)
    \/ s.lastResponseHeaders # NoHeaders
    \/ s.lastTableMetadata.present

\* / (542-554)
searchBinding(s) ==
    IF s.mode = "navigation" /\ hasData(s) THEN showSearch(s) ELSE s

\* a variant of the index arithmetic of n that does not wrap around
nextIndexUnbounded(i, k) == i + 1

\* the index arithmetic of n (559) and N (567)
nextIndex(i, k) == (i + 1) % k
prevIndex(i, k) == (i - 1 + k) % k

\* n (557-562)
nextMatchBinding(s) ==
    IF s.mode = "navigation" /\ s.searchActive /\ Len(s.searchMatches) > 0
    THEN highlightCurrentMatch(
            [s EXCEPT !.currentMatchIndex = nextIndex(@, Len(s.searchMatches))])
    ELSE s

\* N (565-570)
prevMatchBinding(s) ==
    IF s.mode = "navigation" /\ s.searchActive /\ Len(s.searchMatches) > 0
    THEN highlightCurrentMatch(
            [s EXCEPT !.currentMatchIndex = prevIndex(@, Len(s.searchMatches))])
    ELSE s

\* ? (573)
helpBinding(s) == showHelp(s)

(***************************************************************************)
(* The listeners on the widget that had the focus when the key arrived:    *)
(* the help box closes on any key (1336); the search box closes on escape  *)
(* and C-c and otherwise restarts its timer (300-319).  s0 is the state    *)
(* when the key arrived, s1 the state the screen-level binding left.       *)
(***************************************************************************)
focusedListeners(s0, key, s1) ==
    IF ~s1.running THEN s1
    ELSE CASE s0.focused = "helpBox" /\ s0.helpVisible ->
                IF key = "?" THEN s1 ELSE closeHelp(s1)
           [] s0.focused = "searchBox" ->
                CASE key = "escape" -> closeSearch(s1)
                  [] key = "C-c" -> closeSearch(triggerSearch(s1))
                  [] OTHER -> triggerSearch(s1)
           [] OTHER -> s1

(***************************************************************************)
(* The state as a record, and the step that installs a record.             *)
(***************************************************************************)
Cur ==
    [running |-> running,
     mode |-> mode,
     activeTab |-> activeTab,
     focused |-> focused,
     helpVisible |-> helpVisible,
     helpReturn |-> helpReturn,
     autocompleteVisible |-> autocompleteVisible,
     autocompleteItems |-> autocompleteItems,
     editorShown |-> editorShown,
     historyShown |-> historyShown,
     historyItems |-> historyItems,
     editorValue |-> editorValue,
     queryLabel |-> queryLabel,
     queryHistory |-> queryHistory,
     sidebarItems |-> sidebarItems,
     sidebarSelected |-> sidebarSelected,
     namespaces |-> namespaces,
     currentNamespace |-> currentNamespace,
     lastResultData |-> lastResultData,
     lastResultMetadata |-> lastResultMetadata,
     lastResultSchema |-> lastResultSchema,
     lastResponseHeaders |-> lastResponseHeaders,
     lastTableMetadata |-> lastTableMetadata,
     resultsViewMode |-> resultsViewMode,
     resultsDisplayMode |-> resultsDisplayMode,
     resultsContent |-> resultsContent,
     resultsLabel |-> resultsLabel,
     searchActive |-> searchActive,
     searchTerm |-> searchTerm,
     searchMatches |-> searchMatches,
     currentMatchIndex |-> currentMatchIndex,
     searchBoxValue |-> searchBoxValue,
     searchBoxShown |-> searchBoxShown,
     searchTimeout |-> searchTimeout,
     searchTimers |-> searchTimers,
     pendingQueries |-> pendingQueries,
     pendingTables |-> pendingTables,
     pendingMetadata |-> pendingMetadata,
     pendingLoads |-> pendingLoads,
     pendingCopies |-> pendingCopies,
     labelTimers |-> labelTimers,
     historyEnabled |-> historyEnabled,
     historyFile |-> historyFile,
     historyWritable |-> historyWritable,
     issued |-> issued]

Apply(r) ==
    /\ running' = r.running
    /\ mode' = r.mode
    /\ activeTab' = r.activeTab
    /\ focused' = r.focused
    /\ helpVisible' = r.helpVisible
    /\ helpReturn' = r.helpReturn
    /\ autocompleteVisible' = r.autocompleteVisible
    /\ autocompleteItems' = r.autocompleteItems
    /\ editorShown' = r.editorShown
    /\ historyShown' = r.historyShown
    /\ historyItems' = r.historyItems
    /\ editorValue' = r.editorValue
    /\ queryLabel' = r.queryLabel
    /\ queryHistory' = r.queryHistory
    /\ sidebarItems' = r.sidebarItems
    /\ sidebarSelected' = r.sidebarSelected
    /\ namespaces' = r.namespaces
    /\ currentNamespace' = r.currentNamespace
    /\ lastResultData' = r.lastResultData
    /\ lastResultMetadata' = r.lastResultMetadata
    /\ lastResultSchema' = r.lastResultSchema
    /\ lastResponseHeaders' = r.lastResponseHeaders
    /\ lastTableMetadata' = r.lastTableMetadata
    /\ resultsViewMode' = r.resultsViewMode
    /\ resultsDisplayMode' = r.resultsDisplayMode
    /\ resultsContent' = r.resultsContent
    /\ resultsLabel' = r.resultsLabel
    /\ searchActive' = r.searchActive
    /\ searchTerm' = r.searchTerm
    /\ searchMatches' = r.searchMatches
    /\ currentMatchIndex' = r.currentMatchIndex
    /\ searchBoxValue' = r.searchBoxValue
    /\ searchBoxShown' = r.searchBoxShown
    /\ searchTimeout' = r.searchTimeout
    /\ searchTimers' = r.searchTimers
    /\ pendingQueries' = r.pendingQueries
    /\ pendingTables' = r.pendingTables
    /\ pendingMetadata' = r.pendingMetadata
    /\ pendingLoads' = r.pendingLoads
    /\ pendingCopies' = r.pendingCopies
    /\ labelTimers' = r.labelTimers
    /\ historyEnabled' = r.historyEnabled
    /\ historyFile' = r.historyFile
    /\ historyWritable' = r.historyWritable
    /\ issued' = r.issued

\* what search can be compared against: the pane and everything it is rendered from
Store(s) ==
    << s.lastResultData, s.lastResultMetadata, s.lastResultSchema, s.lastResponseHeaders,
       s.lastTableMetadata, s.resultsViewMode, s.resultsDisplayMode >>
Snapshot(s) ==
    [content |-> s.resultsContent, label |-> s.resultsLabel, store |-> Store(s),
     inFlight |-> s.pendingQueries]

\* values of the history variable lastEvent
NoEvent ==
    [kind |-> "", mode |-> "", focused |-> "", activeTab |-> "", overlay |-> FALSE,
     schema |-> NoSchema, headers |-> NoHeaders, zeroRows |-> FALSE]
KeyEvent(kind) ==
    [NoEvent EXCEPT !.kind = kind, !.mode = mode, !.focused = focused,
                    !.activeTab = activeTab, !.overlay = helpVisible \/ autocompleteVisible]
ReplyEvent(reply) ==
    [NoEvent EXCEPT !.kind = IF reply.error # "" THEN "error" ELSE "success",
                    !.schema = lastResultSchema, !.headers = lastResponseHeaders,
                    !.zeroRows = (Len(reply.data) = 0)]

\* values of the history variable expandLog
NamespaceNames == { Namespaces[i] : i \in 1..Len(Namespaces) }
NoExpand == [before |-> <<>>, inserted |-> <<>>, after |-> <<>>]
Logged(ns, index, after) ==
    LET n == Len(after) - (IF index <= Len(sidebarItems) THEN Len(sidebarItems) ELSE index)
    IN  [expandLog EXCEPT ![ns] =
            [before |-> sidebarItems,
             inserted |-> IF n > 0 THEN SubSeq(after, index + 1, index + n) ELSE <<>>,
             after |-> after]]

\* a step that records the event ev and is neither the opening of a search nor an expand
Record(r, ev) == Apply(r) /\ lastEvent' = ev /\ UNCHANGED << searchBase, expandLog >>
Step(r) == Record(r, NoEvent)

\* one key event: the screen-level binding, then the focused widget's listeners
Key(key, afterBinding) == focusedListeners(Cur, key, afterBinding)

\* the exploration stops issuing requests and growing the editor text at the bounds
Within(r) == r.issued <= MaxIssued /\ Len(r.editorValue) <= MaxEditorLen

(***************************************************************************)
(* Inputs.                                                                 *)
(***************************************************************************)
\* the text setupUI puts in the editor (322), shortened: comment lines, then "SELECT "
InitialEditorValue ==
    << "-","-"," ","h","i","n","t","\n","\n","S","E","L","E","C","T"," " >>
EditorTexts ==
    { <<>>, << "s","e","l","e","c","t"," ","1" >>, << "S","H","O","W" >> }
SearchTerms ==
    { <<>>, << "a" >>, << "B" >>, << "z" >> }

(***************************************************************************)
(* Init: the object after its constructor (74-91): the UI is set up        *)
(* (322-333) and showLoadingScreen has started the first catalog load.     *)
(***************************************************************************)
Constructed(history) ==
    /\ running = TRUE
    /\ mode = "navigation"
    /\ activeTab = "query"
    /\ focused = "sidebar"
    /\ helpVisible = FALSE
    /\ helpReturn = "sidebar"
    /\ autocompleteVisible = FALSE
    /\ autocompleteItems = <<>>
    /\ editorShown = TRUE
    /\ historyShown = FALSE
    /\ historyItems = <<>>
    /\ editorValue = InitialEditorValue
    /\ queryLabel = ""
    /\ queryHistory = <<>>
    /\ sidebarItems = <<>>
    /\ sidebarSelected = 0
    /\ namespaces = <<>>
    /\ currentNamespace = NoNamespace
    /\ lastResultData = <<>>
    /\ lastResultMetadata = NoMetadata
    /\ lastResultSchema = NoSchema
    /\ lastResponseHeaders = NoHeaders
    /\ lastTableMetadata = NoTableMetadata
    /\ resultsViewMode = "list"
    /\ resultsDisplayMode = "data"
    /\ resultsContent = Message("text", "Welcome to R2 SQL Shell!")
    /\ resultsLabel = PlainLabel("plain")
    /\ searchActive = FALSE
    /\ searchTerm = <<>>
    /\ searchMatches = <<>>
    /\ currentMatchIndex = 0
    /\ searchBoxValue = <<>>
    /\ searchBoxShown = FALSE
    /\ searchTimeout = NoTimer
    /\ searchTimers = {}
    /\ pendingQueries = {}
    /\ pendingTables = {}
    /\ pendingMetadata = {}
    /\ pendingLoads = {[id |-> 0, phase |-> "namespaces", nss |-> <<>>]}
    /\ pendingCopies = {}
    /\ labelTimers = 0
    /\ historyEnabled = history
    /\ historyFile = <<>>
    /\ historyWritable = TRUE
    /\ issued = 0
    /\ searchBase = Snapshot(Cur)
    /\ expandLog = [ns \in NamespaceNames |-> NoExpand]
    /\ lastEvent = NoEvent

\* the program started without --history (index.ts 19, 74)
Init == Constructed(FALSE)

(***************************************************************************)
(* Actions: key events.                                                    *)
(***************************************************************************)
KeyEscape == running /\ Record(Key("escape", escapeBinding(Cur)), KeyEvent("escape"))

KeyQuit == running /\ \E key \in {"q", "C-c"} : Record(Key(key, quitBinding(Cur)), KeyEvent("quit"))

KeyDigit == running /\ \E d \in 1..4 : Step(Key("digit", digitBinding(Cur, d)))

KeyAltDigit == running /\ \E d \in 1..4 : Step(Key("M-digit", altDigitBinding(Cur, d)))

KeyInsert == running /\ Record(Key("i", insertBinding(Cur)), KeyEvent("i"))

KeyExecute ==
    LET r == Key("C-e", executeBinding(Cur))
    IN  running /\ Within(r) /\ Record(r, KeyEvent("execute"))

KeyX ==
    LET r == Key("x", xBinding(Cur)) IN running /\ Within(r) /\ Step(r)

KeyClear == running /\ Step(Key("C-l", clearBinding(Cur)))

KeyLeft == running /\ Step(Key("h", leftBinding(Cur)))

\* l, right, enter: expand, collapse or select the entry under the selection
ExpandsAtOnce ==
    /\ mode = "navigation" /\ focused = "sidebar"
    /\ sidebarSelected \in 1..Len(sidebarItems)
    /\ isCollapsedItem(sidebarItems[sidebarSelected])
    /\ ~expandNeedsFetch(Cur, sidebarItems[sidebarSelected].name)

KeyRight ==
    LET r == Key("l", rightBinding(Cur))
    IN  /\ running /\ Within(r)
        /\ Apply(r)
        /\ lastEvent' = NoEvent
        /\ expandLog' = IF ExpandsAtOnce
                        THEN Logged(sidebarItems[sidebarSelected].name, sidebarSelected,
                                    r.sidebarItems)
                        ELSE expandLog
        /\ UNCHANGED searchBase

KeyJump == running /\ \E toEnd \in BOOLEAN : Step(Key("g", jumpBinding(Cur, toEnd)))

KeyRefresh ==
    LET r == Key("r", refreshBinding(Cur)) IN running /\ Within(r) /\ Step(r)

KeyView == running /\ Step(Key("t", viewBinding(Cur)))

KeyDisplay == running /\ Step(Key("v", displayBinding(Cur)))

KeySearch ==
    /\ running
    /\ Apply(Key("/", searchBinding(Cur)))
    /\ lastEvent' = NoEvent
    /\ searchBase' = IF mode = "navigation" /\ hasData(Cur) THEN Snapshot(Cur) ELSE searchBase
    /\ UNCHANGED expandLog

KeyNextMatch == running /\ Step(Key("n", nextMatchBinding(Cur)))

KeyPrevMatch == running /\ Step(Key("N", prevMatchBinding(Cur)))

KeyHelp == running /\ Step(Key("?", helpBinding(Cur)))

\* j, k (441-461) scroll the results pane; any other key without a binding
\* changes nothing at the screen level
KeyCopy ==
    /\ running
    /\ \E format \in {"json", "markdown"} : \E hasText \in copyTexts(Cur) :
         LET r == Key(IF format = "json" THEN "c" ELSE "m", copyBinding(Cur, format, hasText))
         IN  Within(r) /\ Step(r)

KeyOther == running /\ Step(Key("j", Cur))

(***************************************************************************)
(* Actions: the toolkit's own handling of input on the focused widget.     *)
(***************************************************************************)
\* typing in the query editor
EditorInput ==
    /\ running /\ focused = "queryEditor"
    /\ \E text \in EditorTexts : Step([Cur EXCEPT !.editorValue = text])

\* typing in the search box: the value changes and the keypress listener (300-310) runs
SearchBoxInput ==
    /\ running /\ focused = "searchBox"
    /\ \E text \in SearchTerms : Step(triggerSearch([Cur EXCEPT !.searchBoxValue = text]))

\* moving the selection of the sidebar list (keys: true, vi: true)
SidebarMove ==
    /\ running /\ focused = "sidebar"
    /\ \E i \in 1..Len(sidebarItems) : Step([Cur EXCEPT !.sidebarSelected = i])

\* enter on an entry of the history list: the 'select' listener (1207-1214)
HistorySelect ==
    /\ running /\ focused = "historyList"
    /\ \E i \in 1..Len(historyItems) :
        Step(IF i <= Len(queryHistory)
             THEN switchTab([Cur EXCEPT !.editorValue = queryHistory[i]], "query")
             ELSE Cur)

(***************************************************************************)
(* Actions: timers and continuations of awaits.                            *)
(***************************************************************************)
SearchTimer == running /\ \E id \in searchTimers : Step(searchTimerFired(Cur, id))

\* the clipboard command exits with code 0, or with another code
CopySucceeds == running /\ \E p \in pendingCopies : Step(copyResume(Cur, p, 0))
CopyFails == running /\ \E p \in pendingCopies : Step(copyResume(Cur, p, 1))

LabelTimer == running /\ labelTimers > 0 /\ Step(labelTimerFired(Cur))

QueryReply(p, reply) ==
    running /\ p \in pendingQueries /\ Record(queryResume(Cur, p, reply), ReplyEvent(reply))

QueryReplies == \E p \in pendingQueries : \E reply \in QueryResponses : QueryReply(p, reply)

\* catalogClient.listTables (iceberg-client.ts 108-120): the names, or [] on any failure
TableLists(ns) == { CatalogTables(ns), <<>> }

TablesReply(p, tables, accepted) ==
    LET r == expandResume(Cur, p, tables, accepted)
    IN  /\ running /\ p \in pendingTables
        /\ Apply(r)
        /\ lastEvent' = NoEvent
        /\ expandLog' = Logged(p.ns, p.index, r.sidebarItems)
        /\ UNCHANGED searchBase

TablesReplies ==
    \E p \in pendingTables : \E tables \in TableLists(p.ns) :
        \E accepted \in widgetAccepts(Cur, p) : TablesReply(p, tables, accepted)

\* catalogClient.getTableMetadata (iceberg-client.ts 122-139): the metadata, or null on failure
MetadataReply(p, reply) ==
    running /\ p \in pendingMetadata /\ Step(tableSchemaResume(Cur, p, reply))

MetadataReplies ==
    \E p \in pendingMetadata :
        \E reply \in {TableMetadata(p.ns, p.table), NoTableMetadata} : MetadataReply(p, reply)

\* catalogClient.listNamespaces (iceberg-client.ts 91-106): the names, or [] on any failure
LoadNamespacesReply ==
    /\ running
    /\ \E p \in pendingLoads :
        /\ p.phase = "namespaces"
        /\ \E nss \in {Namespaces, <<>>} : Step(loadNamespacesResume(Cur, p, nss))

LoadTablesReply ==
    /\ running
    /\ \E p \in pendingLoads :
        /\ p.phase = "tables"
        /\ \E failed \in SUBSET (1..Len(p.nss)) :
            Step(loadTablesResume(Cur, p,
                    [i \in 1..Len(p.nss) |->
                        IF i \in failed THEN <<>> ELSE CatalogTables(p.nss[i])]))

(***************************************************************************)
(* The whole program: every event in any order.                            *)
(***************************************************************************)
Next ==
    \/ KeyEscape \/ KeyQuit \/ KeyDigit \/ KeyAltDigit \/ KeyInsert \/ KeyExecute \/ KeyX
    \/ KeyClear \/ KeyLeft \/ KeyRight \/ KeyJump \/ KeyRefresh \/ KeyView \/ KeyDisplay
    \/ KeySearch \/ KeyNextMatch \/ KeyPrevMatch \/ KeyHelp \/ KeyOther
    \/ EditorInput \/ SearchBoxInput \/ SidebarMove \/ HistorySelect
    \/ SearchTimer \/ QueryReplies \/ TablesReplies \/ MetadataReplies
    \/ LoadNamespacesReply \/ LoadTablesReply
    \/ KeyCopy \/ CopySucceeds \/ CopyFails \/ LabelTimer

Spec == Init /\ [][Next]_vars

(***************************************************************************)
(* Parts of the program, small enough to explore exhaustively: each is the *)
(* program restricted to the events named.                                 *)
(***************************************************************************)
\* running queries and searching their results
NextSearch ==
    \/ KeyExecute \/ QueryReplies \/ KeySearch \/ SearchBoxInput \/ SearchTimer
    \/ KeyEscape \/ KeyNextMatch \/ KeyPrevMatch \/ KeyDisplay

SpecSearch == Init /\ [][NextSearch]_vars

\* editing and running queries, the history tab
NextQuery ==
    \/ KeyExecute \/ QueryReplies \/ EditorInput \/ KeyInsert \/ KeyEscape \/ KeyClear

SpecQuery == Init /\ [][NextQuery]_vars

\* the sidebar tree, with every catalog request answered before the next key
Quiet == pendingTables = {} /\ pendingLoads = {}
TreeMove == Quiet /\ SidebarMove
TreeSelect == Quiet /\ KeyRight
TreeRefresh == Quiet /\ KeyRefresh

NextTree ==
    \/ LoadNamespacesReply \/ LoadTablesReply \/ TablesReplies \/ MetadataReplies
    \/ TreeMove \/ TreeSelect \/ TreeRefresh \/ KeyLeft

SpecTree == Init /\ [][NextTree]_vars

\* modes, focus, tabs and overlays; the service answers every query with the same rows
RowsReply == \E p \in pendingQueries : QueryReply(p, QueryOk(Rows3, SchemaA, HeadersA, 5))

\* the two keys that execute the query, while fewer than MaxKeysIssued requests were issued
FirstExecute == issued < MaxKeysIssued /\ KeyExecute
FirstX == issued < MaxKeysIssued /\ KeyX

NextKeys ==
    \/ KeyEscape \/ KeyQuit \/ KeyDigit \/ KeyAltDigit \/ KeyInsert \/ FirstExecute
    \/ FirstX \/ KeyClear \/ KeyLeft \/ KeySearch \/ KeyHelp \/ KeyOther \/ RowsReply

SpecKeys == Init /\ [][NextKeys]_vars

\* the tabs: editing, running one query, the tab keys and the history list
NextTabs ==
    \/ KeyDigit \/ KeyAltDigit \/ KeyInsert \/ KeyEscape \/ EditorInput \/ KeyClear
    \/ FirstExecute \/ RowsReply \/ HistorySelect

SpecTabs == Init /\ [][NextTabs]_vars

\* the layout and display-mode keys over stored results
NextView ==
    \/ KeyExecute \/ QueryReplies \/ KeyView \/ KeyDisplay \/ KeyInsert \/ KeyEscape

SpecView == Init /\ [][NextView]_vars

\* the suggestion list as a function of the editor text and the namespace index:
\* the texts and indexes it is computed for
QueryTexts ==
    { << "S","E","L","E","C","T"," " >>,
      << "s","e","l","e","c","t"," " >>,
      << "x","\n","S","E","L","E","C","T"," " >>,
      << "S","E","L","E","C","T"," ","*"," ","F","R","O","M"," " >>,
      << "F","R","O","M"," " >>,
      << "S","E","L","E","C","T"," ","*"," ","F","R","O","M"," ","n","s","a","." >>,
      << "S","E","L","E","C","T"," ","*"," ","F","R","O","M"," ","n" >>,
      << "S","E","L" >>,
      <<>>,
      << "S","E","L","E","C","T"," ","*"," ","F","R","O","M"," ","t"," ","W","H","E","R","E"," " >>,
      << "S","E","L","E","C","T"," ","*" >>,
      << "S","E","L","E","C","T"," ","f" >>,
      << "S","E","L","E","C","T"," ","a"," ","F","R","O","M"," ","S","E","L","E","C","T"," " >> }
Indexes ==
    { <<>>,
      << [ns |-> Namespaces[1], tables |-> CatalogTables(Namespaces[1])] >>,
      << [ns |-> Namespaces[1], tables |-> CatalogTables(Namespaces[1])],
         [ns |-> Namespaces[2], tables |-> CatalogTables(Namespaces[2])] >>,
      << [ns |-> << "f","r","o","m","x" >>, tables |-> << <<"t">> >>] >> }

\* the program with its catalog loaded and a text in the editor
InitSuggest ==
    /\ running = TRUE
    /\ mode = "navigation"
    /\ activeTab = "query"
    /\ focused = "sidebar"
    /\ helpVisible = FALSE
    /\ helpReturn = "sidebar"
    /\ autocompleteVisible = FALSE
    /\ autocompleteItems = <<>>
    /\ editorShown = TRUE
    /\ historyShown = FALSE
    /\ historyItems = <<>>
    /\ editorValue \in QueryTexts
    /\ queryLabel = ""
    /\ queryHistory = <<>>
    /\ namespaces \in Indexes
    /\ sidebarItems = [i \in 1..Len(namespaces) |-> CollapsedItem(namespaces[i].ns)]
    /\ sidebarSelected = IF Len(namespaces) > 0 THEN 1 ELSE 0
    /\ currentNamespace = NoNamespace
    /\ lastResultData = <<>>
    /\ lastResultMetadata = NoMetadata
    /\ lastResultSchema = NoSchema
    /\ lastResponseHeaders = NoHeaders
    /\ lastTableMetadata = NoTableMetadata
    /\ resultsViewMode = "list"
    /\ resultsDisplayMode = "data"
    /\ resultsContent = Message("text", "Welcome to R2 SQL Shell!")
    /\ resultsLabel = PlainLabel("plain")
    /\ searchActive = FALSE
    /\ searchTerm = <<>>
    /\ searchMatches = <<>>
    /\ currentMatchIndex = 0
    /\ searchBoxValue = <<>>
    /\ searchBoxShown = FALSE
    /\ searchTimeout = NoTimer
    /\ searchTimers = {}
    /\ pendingQueries = {}
    /\ pendingTables = {}
    /\ pendingMetadata = {}
    /\ pendingLoads = {}
    /\ pendingCopies = {}
    /\ labelTimers = 0
    /\ historyEnabled = FALSE
    /\ historyFile = <<>>
    /\ historyWritable = TRUE
    /\ issued = 0
    /\ searchBase = Snapshot(Cur)
    /\ expandLog = [ns \in NamespaceNames |-> NoExpand]
    /\ lastEvent = NoEvent

Suggest == running /\ Record(showAutocomplete(Cur), KeyEvent("suggest"))
SuggestAuto == running /\ Record(showAutocompleteAuto(Cur), KeyEvent("suggestAuto"))

NextSuggest == Suggest \/ SuggestAuto \/ KeyEscape \/ KeyInsert

SpecSuggest == InitSuggest /\ [][NextSuggest]_vars

\* the filters as functions of the stored result and the term: the stored results
\* and the terms they are computed for
RowsMixed ==
    << JObj(<< KV(<<"i","d">>, JNum(<<"1">>)), KV(<<"v">>, JStr(<<"a","b","c">>)), KV(<<"n">>, JNull) >>),
       JObj(<< KV(<<"i","d">>, JNum(<<"2">>)), KV(<<"v">>, JStr(<<"N","u","l","l">>)),
               KV(<<"o">>, JObj(<< KV(<<"k">>, JStr(<<"z","z","z">>)) >>)) >>),
       JObj(<< KV(<<"i","d">>, JNum(<<"1","2">>)), KV(<<"f","l","a","g">>, JBool(<<"t","r","u","e">>)),
               KV(<<"v">>, JStr(<<"x">>)) >>) >>

ExampleTree ==
    JObj(<< KV(<<"i","d">>, JStr(<<"a","b","c">>)),
            KV(<<"n","e","s","t","e","d">>,
               JObj(<< KV(<<"k","e","e","p">>, JStr(<<"a","b","c","1","2","3">>)),
                       KV(<<"d","r","o","p">>, JStr(<<"z","z","z">>)) >>)) >>)
MetadataTrees ==
    { ExampleTree,
      JObj(<< KV(<<"l","i","s","t">>,
                 JArr(<< JStr(<<"A","B","C">>), JStr(<<"x">>),
                         JObj(<< KV(<<"k">>, JStr(<<"a","b","c">>)), KV(<<"q">>, JNum(<<"7">>)) >>),
                         JNum(<<"1","2">>), JArr(<< JStr(<<"y">>) >>) >>)),
              KV(<<"a","b","c","K","e","y">>, JObj(<< KV(<<"w">>, JStr(<<"z","z","z">>)) >>)),
              KV(<<"n">>, JNull) >>),
      JObj(<< KV(<<"a">>, JObj(<< KV(<<"b">>, JObj(<< KV(<<"c">>, JStr(<<"z","z","z">>)) >>)) >>)),
              KV(<<"n","u","m">>, JNum(<<"1","2","0">>)),
              KV(<<"f","l","a","g">>, JBool(<<"t","r","u","e">>)),
              KV(<<"e">>, JObj(<<>>)) >>) }
CatalogMetadata(tree) ==
    [present |-> TRUE, schema |-> <<Field(<<"t">>, <<"i","n","t">>)>>, fullMetadata |-> tree]

FilterTerms ==
    { << "a","b","c" >>,
      << "A","B","C" >>,
      << "n","u","l" >>,
      << "o","b","j" >>,
      << "t","r","u" >>,
      << "z","z","z" >>,
      << "I","D",":","1" >>,
      << "x",":","1" >>,
      << "v",":","B" >>,
      << "n",":","n","u","l" >>,
      << "a",":","b",":","c" >>,
      << "1","2" >>,
      << "q" >>,
      << " ","v"," ",":","b" >> }

Indexes3 ==
    << [ns |-> Namespaces[1], tables |-> CatalogTables(Namespaces[1])],
       [ns |-> Namespaces[2], tables |-> CatalogTables(Namespaces[2])] >>

\* the program with its catalog loaded and a result stored: the rows of a query shown
\* in data mode, or the metadata of a selected table shown in metadata mode
InitFilter ==
    /\ running = TRUE
    /\ lastTableMetadata \in {NoTableMetadata} \cup { CatalogMetadata(tree) : tree \in MetadataTrees }
    /\ mode = "navigation"
    /\ activeTab = "query"
    /\ focused = "sidebar"
    /\ helpVisible = FALSE
    /\ helpReturn = "sidebar"
    /\ autocompleteVisible = FALSE
    /\ autocompleteItems = <<>>
    /\ editorShown = TRUE
    /\ historyShown = FALSE
    /\ historyItems = <<>>
    /\ editorValue = InitialEditorValue
    /\ queryLabel = ""
    /\ queryHistory = IF lastTableMetadata.present THEN <<>>
                      ELSE << << "s","e","l","e","c","t"," ","1" >> >>
    /\ namespaces = Indexes3
    /\ sidebarItems = [i \in 1..Len(namespaces) |-> CollapsedItem(namespaces[i].ns)]
    /\ sidebarSelected = 1
    /\ currentNamespace = NoNamespace
    /\ lastResultData = IF lastTableMetadata.present THEN <<>> ELSE RowsMixed
    /\ lastResultMetadata = IF lastTableMetadata.present THEN NoMetadata ELSE Metadata(3, 5)
    /\ lastResultSchema = NoSchema
    /\ lastResponseHeaders = IF lastTableMetadata.present THEN NoHeaders ELSE HeadersA
    /\ resultsViewMode = "list"
    /\ resultsDisplayMode = IF lastTableMetadata.present THEN "metadata" ELSE "data"
    /\ resultsContent =
          IF lastTableMetadata.present
          THEN Pane("metadata", "", <<lastTableMetadata.fullMetadata>>, NoMetadata, "", FALSE)
          ELSE Pane("rows", "", RowsMixed, Metadata(3, 5), "list", FALSE)
    /\ resultsLabel =
          IF lastTableMetadata.present
          THEN Label("metadata", 0, 0, "list", 0)
          ELSE Label("rows", 3, 0, "list", 0)
    /\ searchActive = FALSE
    /\ searchTerm = <<>>
    /\ searchMatches = <<>>
    /\ currentMatchIndex = 0
    /\ searchBoxValue = <<>>
    /\ searchBoxShown = FALSE
    /\ searchTimeout = NoTimer
    /\ searchTimers = {}
    /\ pendingQueries = {}
    /\ pendingTables = {}
    /\ pendingMetadata = {}
    /\ pendingLoads = {}
    /\ pendingCopies = {}
    /\ labelTimers = 0
    /\ historyEnabled = FALSE
    /\ historyFile = <<>>
    /\ historyWritable = TRUE
    /\ issued = 1
    /\ searchBase = Snapshot(Cur)
    /\ expandLog = [ns \in NamespaceNames |-> NoExpand]
    /\ lastEvent = NoEvent

\* typing a term in the search box
FilterInput ==
    /\ running /\ focused = "searchBox"
    /\ \E text \in FilterTerms : Step(triggerSearch([Cur EXCEPT !.searchBoxValue = text]))

NextFilter == KeySearch \/ FilterInput \/ SearchTimer \/ KeyEscape \/ KeyNextMatch

SpecFilter == InitFilter /\ [][NextFilter]_vars

\* requests that fail: what each client returns for a failed request, and the
\* continuation of the await that receives it
RequestFailed(request) == [NoEvent EXCEPT !.kind = request]

\* R2SQLClient.executeQuery returns { data: [], error } for a failed request
ExecuteQueryFails ==
    /\ running
    /\ \E p \in pendingQueries :
         Record(queryResume(Cur, p, QueryError("Query failed")), RequestFailed("executeQuery"))

\* listNamespaces returns [] for a failed request
ListNamespacesFails ==
    /\ running
    /\ \E p \in pendingLoads :
         /\ p.phase = "namespaces"
         /\ Record(loadNamespacesResume(Cur, p, <<>>), RequestFailed("listNamespaces"))

\* listTables, called by loadNamespacesAndTables, returns [] for a failed request
LoadListTablesFails ==
    /\ running
    /\ \E p \in pendingLoads :
         /\ p.phase = "tables"
         /\ \E failed \in (SUBSET (1..Len(p.nss))) \ {{}} :
              Record(loadTablesResume(Cur, p,
                        [i \in 1..Len(p.nss) |->
                            IF i \in failed THEN <<>> ELSE CatalogTables(p.nss[i])]),
                     RequestFailed("listTables"))

\* listTables, called by expandNamespace, returns [] for a failed request
ListTablesFails ==
    /\ running
    /\ \E p \in pendingTables : \E accepted \in widgetAccepts(Cur, p) :
         LET r == expandResume(Cur, p, <<>>, accepted)
         IN  /\ Apply(r)
             /\ lastEvent' = RequestFailed("listTables")
             /\ expandLog' = Logged(p.ns, p.index, r.sidebarItems)
             /\ UNCHANGED searchBase

\* getTableMetadata returns null for a failed request
GetTableMetadataFails ==
    /\ running
    /\ \E p \in pendingMetadata :
         Record(tableSchemaResume(Cur, p, NoTableMetadata), RequestFailed("getTableMetadata"))

\* the catalog and the query service with requests that may fail
NextFail ==
    \/ LoadNamespacesReply \/ LoadTablesReply \/ TablesReplies \/ MetadataReplies
    \/ TreeMove \/ TreeSelect \/ FirstExecute \/ RowsReply
    \/ ExecuteQueryFails \/ ListNamespacesFails \/ LoadListTablesFails
    \/ ListTablesFails \/ GetTableMetadataFails

SpecFail == Init /\ [][NextFail]_vars

\* a response whose rows the service sent in an unexpected shape: one row is null
RowsBroken == << Row(<<"1">>, <<"a">>), JNull >>

BrokenRowsReply ==
    \E p \in pendingQueries : QueryReply(p, QueryOk(RowsBroken, SchemaA, HeadersA, 5))

\* every trigger of a render, over well-formed and malformed stored rows
NextRender ==
    \/ FirstExecute \/ RowsReply \/ BrokenRowsReply \/ KeyView \/ KeyDisplay
    \/ KeySearch \/ SearchBoxInput \/ SearchTimer \/ KeyEscape

SpecRender == Init /\ [][NextRender]_vars

\* copying what the results pane shows, over the panes of one result
NextCopy ==
    \/ FirstExecute \/ RowsReply \/ KeyView \/ KeyDisplay
    \/ KeyCopy \/ CopySucceeds \/ CopyFails \/ LabelTimer

SpecCopy == Init /\ [][NextCopy]_vars

\* the sidebar tree with no waiting between a key and the catalog's answers
NextPrefetch ==
    \/ LoadNamespacesReply \/ LoadTablesReply \/ TablesReplies \/ MetadataReplies
    \/ SidebarMove \/ KeyRight \/ KeyLeft \/ KeyRefresh

SpecPrefetch == Init /\ [][NextPrefetch]_vars

\* results whose rows hold null fields, in the first, a middle and the last column
RowsExample ==
    << JObj(<< KV(<<"a">>, JNum(<<"1">>)), KV(<<"b">>, JNull) >>),
       JObj(<< KV(<<"a">>, JNum(<<"2">>)), KV(<<"b">>, JStr(<<"x">>)) >>) >>
RowsWithNulls ==
    { RowsExample, RowsMixed,
      << JObj(<< KV(<<"b">>, JNull) >>) >>,
      << JObj(<< KV(<<"n">>, JNull), KV(<<"l","o","n","g","e","r">>, JStr(<<"a","b","c","d","e","f","g","h">>)),
                 KV(<<"t">>, JStr(<<"2","0","2","4","-","0","1","-","0","2">>)) >>),
         JObj(<< KV(<<"n">>, JNum(<<"7">>)), KV(<<"l","o","n","g","e","r">>, JNull),
                 KV(<<"t">>, JNull) >>) >> }

NullRowsReply ==
    \E p \in pendingQueries : \E rows \in RowsWithNulls :
        QueryReply(p, QueryOk(rows, SchemaA, HeadersA, 5))

\* the layouts of the data pane over results with null fields, whole and filtered
NextLayout ==
    \/ FirstExecute \/ NullRowsReply \/ KeyView
    \/ KeySearch \/ SearchBoxInput \/ SearchTimer \/ KeyEscape

SpecLayout == Init /\ [][NextLayout]_vars

\* selecting tables of the tree with a text in the editor
TypedTexts ==
    { <<>>, << " ", " " >>, << "S","H","O","W" >>, << "F","R","O","M"," ","s","e","l","e","c","t" >>,
      << " ","s","e","L","e","c","t"," ","a"," " >>, << "S","E","L","E","C","T","E","D" >>,
      << "s","e","l","e","c" >> }

TypedInput ==
    /\ running /\ focused = "queryEditor"
    /\ \E text \in TypedTexts : Step([Cur EXCEPT !.editorValue = text])

NextInsert ==
    \/ LoadNamespacesReply \/ LoadTablesReply \/ TablesReplies \/ MetadataReplies
    \/ TreeMove \/ TreeSelect \/ KeyLeft \/ TypedInput

SpecInsert == Init /\ [][NextInsert]_vars

\* the longest text an acceptance is followed up to
MaxAcceptLen == 22

\* accepting a suggestion of the shown box: the 'select' listener of the box (187-190)
Accept(i) ==
    /\ running /\ autocompleteVisible /\ i \in 1..Len(autocompleteItems)
    /\ LET r == insertAutocomplete(Cur, autocompleteItems[i])
       IN  Within(r) /\ Len(r.editorValue) <= MaxAcceptLen /\ Step(r)

AcceptSuggestion == \E i \in 1..Len(autocompleteItems) : Accept(i)

\* the texts suggestions are accepted for
AcceptTexts ==
    { << "S","E","L","E","C","T"," ","F","R","O","M"," ","n" >>,
      << "s","e","l","e","c","t"," "," ","f","r","o","m"," ","n","s","b" >>,
      << "S","E","L","E","C","T"," ","a"," ","F","R","O","M"," ","n","s","a","." >>,
      << "t"," ","O","R","D","E","R"," ","B","Y"," " >>,
      << "S","E","L","E","C","T"," ","*","\n","F","R","O","M","\t","n","s","a",".","u" >>,
      << "S","E","L","E","C","T"," ","a",","," ","f" >>,
      << "x"," ","n" >> }

QueryInput ==
    /\ running /\ focused = "queryEditor"
    /\ \E text \in AcceptTexts : Step([Cur EXCEPT !.editorValue = text])

NextAccept == Suggest \/ KeyEscape \/ QueryInput \/ AcceptSuggestion

SpecAccept == InitSuggest /\ [][NextAccept]_vars

\* the history of executed queries, with and without --history, on a disk that may
\* refuse the append
DiskChanges == running /\ Step([Cur EXCEPT !.historyWritable = ~historyWritable])

InitHistory == \E history \in BOOLEAN : Constructed(history)

NextHistory ==
    \/ KeyExecute \/ QueryReplies \/ KeyInsert \/ EditorInput \/ KeyClear \/ DiskChanges

SpecHistory == InitHistory /\ [][NextHistory]_vars

\* tab in the query editor
KeyTab == running /\ focused = "queryEditor" /\ Record(editorTab(Cur), KeyEvent("tab"))

\* the key bindings with typing and tab in the query editor, a query answered and
\* the catalog loading
NextHandlers ==
    \/ KeyLeft \/ KeyTab \/ EditorInput \/ LoadNamespacesReply \/ LoadTablesReply
    \/ KeyEscape \/ KeyQuit \/ KeyDigit \/ KeyAltDigit \/ KeyInsert \/ FirstExecute
    \/ FirstX \/ KeyClear \/ KeySearch \/ KeyHelp \/ KeyOther \/ RowsReply

SpecHandlers == Init /\ [][NextHandlers]_vars

(***************************************************************************)
(* Properties.                                                             *)
(***************************************************************************)

\* C1: with search active in navigation mode and k >= 1 matches, the next-match
\* key leaves currentMatchIndex at (old + 1) mod k and the previous-match key
\* leaves it at (old - 1) mod k once the key handler has finished.
C1_NextPrevCycle ==
    [][ (mode = "navigation" /\ searchActive /\ Len(searchMatches) >= 1) =>
          LET k == Len(searchMatches)
          IN  /\ KeyNextMatch => currentMatchIndex' = (currentMatchIndex + 1) % k
              /\ KeyPrevMatch => currentMatchIndex' = (currentMatchIndex - 1 + k) % k
      ]_vars

\* C2: selecting a table entry t of the sidebar inserts P.t into the query
\* editor and fetches the schema of P.t, where P is the nearest namespace entry
\* above the table entry.
C2_SelectInsertsEnclosing ==
    [][ (KeyRight /\ mode = "navigation" /\ focused = "sidebar"
            /\ sidebarSelected \in 1..Len(sidebarItems)
            /\ isTableItem(sidebarItems[sidebarSelected])) =>
          LET above == { j \in 1..sidebarSelected : ~isTableItem(sidebarItems[j]) }
              P == sidebarItems[CHOOSE j \in above : \A h \in above : h <= j].name
              ref == fullName(P, sidebarItems[sidebarSelected].name)
              n == Len(editorValue')
          IN  /\ above # {}
              /\ n >= Len(ref)
              /\ SubSeq(editorValue', n - Len(ref) + 1, n) = ref
              /\ \E p \in pendingMetadata' :
                    p \notin pendingMetadata /\ fullName(p.ns, p.table) = ref
      ]_vars

C4_ClearRestoresPane ==
    [][ ( /\ searchActive /\ trim(searchTerm) # <<>>
          /\ Store(Cur) = searchBase.store
          /\ searchBase.inFlight = {} /\ pendingQueries = {}
          /\ \/ ~searchActive'
             \/ SearchTimer /\ trim(searchBoxValue) = <<>> ) =>
          (resultsContent' = searchBase.content /\ resultsLabel' = searchBase.label)
      ]_vars

\* C5 as claimed: handling a successful response with zero rows leaves the stored
\* schema, response headers and table metadata in place, so the schema mode still
\* shows the schema stored before.
C5_ZeroRowsKeepPanels ==
    [][ \A p \in pendingQueries : \A reply \in QueryResponses :
          (QueryReply(p, reply) /\ reply.error = "" /\ Len(reply.data) = 0) =>
            /\ HasSchema(lastResultSchema) => lastResultSchema' = lastResultSchema
            /\ lastResponseHeaders # NoHeaders => lastResponseHeaders' = lastResponseHeaders
            /\ lastTableMetadata' = lastTableMetadata
            /\ (HasSchema(lastResultSchema) /\ resultsDisplayMode' = "schema") =>
                  resultsContent' = displaySchema(Cur).resultsContent
      ]_vars

\* C5 as amended: handling a successful response, with or without rows, replaces
\* the stored schema and response headers by those of the response (no schema
\* when the response has none) and leaves the stored table metadata in place;
\* the schema mode then shows the schema of the response.
C5_SuccessReplacesPanels ==
    [][ \A p \in pendingQueries : \A reply \in QueryResponses :
          (QueryReply(p, reply) /\ reply.error = "") =>
            /\ lastResultSchema' = reply.schema
            /\ lastResponseHeaders' = reply.headers
            /\ lastTableMetadata' = lastTableMetadata
            /\ resultsDisplayMode' = "schema" =>
                  resultsContent' =
                    displaySchema([Cur EXCEPT !.lastResultSchema = reply.schema]).resultsContent
      ]_vars

\* a zero-row success has just been handled while a schema was stored, and that schema is gone
C5_Witness ==
    /\ lastEvent.kind = "success" /\ lastEvent.zeroRows
    /\ HasSchema(lastEvent.schema)
    /\ lastResultSchema # lastEvent.schema

\* C6: no entry of the in-memory query history equals the entry right before it.
C6_NoConsecutiveDuplicates ==
    \A i \in 1..(Len(queryHistory) - 1) : queryHistory[i] # queryHistory[i + 1]

C8_EscapeClosesOverlay ==
    [][ (KeyEscape /\ (helpVisible \/ autocompleteVisible)) =>
          /\ ~helpVisible' /\ ~autocompleteVisible'
          /\ mode' = mode
          /\ focused' = IF autocompleteVisible THEN "queryEditor" ELSE helpReturn
      ]_vars

\* C9 as claimed: escape with no overlay visible sets mode navigation and focus
\* sidebar when the focus is on the query editor, changes nothing when the focus
\* is on any other pane, and never exits.
C9_EscapeWithoutOverlay ==
    [][ (KeyEscape /\ ~helpVisible /\ ~autocompleteVisible) =>
          /\ running'
          /\ IF focused = "queryEditor"
             THEN mode' = "navigation" /\ focused' = "sidebar"
             ELSE Cur' = Cur
      ]_vars

\* C9 as amended: escape with no overlay visible closes the search when the
\* focus is on the search box (focus goes to the results pane); otherwise, when
\* mode is insert or the focus is on the query editor, it sets mode navigation
\* and focus sidebar and changes nothing else; otherwise it changes nothing; it
\* never exits.
C9_EscapeLeavesInsert ==
    [][ (KeyEscape /\ ~helpVisible /\ ~autocompleteVisible) =>
          /\ running'
          /\ CASE focused = "searchBox" ->
                    /\ ~searchActive' /\ ~searchBoxShown' /\ searchTerm' = <<>>
                    /\ focused' = "resultsTable"
                    /\ mode' = "navigation" /\ activeTab' = activeTab
               [] focused # "searchBox" /\ (mode = "insert" \/ focused = "queryEditor") ->
                    Cur' = [Cur EXCEPT !.mode = "navigation", !.focused = "sidebar"]
               [] OTHER -> Cur' = Cur
      ]_vars

\* escape was pressed in insert mode with the focus away from the editor: now navigation, sidebar
C9_Witness ==
    /\ lastEvent.kind = "escape" /\ lastEvent.mode = "insert" /\ ~lastEvent.overlay
    /\ lastEvent.focused \notin {"queryEditor", "searchBox"}
    /\ mode = "navigation" /\ focused = "sidebar"

C12_ExecuteKeepsMode ==
    [][ /\ (KeyExecute /\ activeTab = "query") =>
              /\ mode' = mode
              /\ trim(editorValue) # <<>> =>
                    /\ \E p \in pendingQueries' \ pendingQueries : p.query = trim(editorValue)
                    /\ queryLabel' = "running"
                    /\ resultsContent' = Message("text", "Executing query...")
        /\ \A p \in pendingQueries : \A reply \in QueryResponses :
              QueryReply(p, reply) => mode' = mode
      ]_vars

\* the execute key has just been pressed in insert mode on the query tab and its request is out
C12_Witness ==
    /\ lastEvent.kind = "execute" /\ lastEvent.mode = "insert" /\ lastEvent.activeTab = "query"
    /\ mode = "insert"
    /\ \E p \in pendingQueries : p.id = issued /\ p.query = trim(editorValue)

\* C13: once a response has been stored and no request is outstanding, in navigation
\* mode the t key flips
\* resultsViewMode and the v key advances resultsDisplayMode, and each leaves the
\* results pane showing the stored last result rendered in the new layout or display
\* mode, also when the stored result has zero rows, without issuing any request; in
\* any other mode they change neither resultsViewMode nor resultsDisplayMode.
C13_ToggleRerenders ==
    [][ /\ (KeyView /\ lastResponseHeaders # NoHeaders /\ pendingQueries = {}) =>
              IF mode = "navigation"
              THEN LET s1 == [Cur EXCEPT !.resultsViewMode = IF @ = "table" THEN "list" ELSE "table"]
                       r == displayResults(s1, s1.lastResultData, s1.lastResultMetadata, FALSE)
                   IN  /\ resultsViewMode' = s1.resultsViewMode
                       /\ resultsContent' = r.resultsContent
                       /\ resultsLabel' = r.resultsLabel
                       /\ issued' = issued /\ pendingQueries' = pendingQueries
                       /\ pendingTables' = pendingTables /\ pendingMetadata' = pendingMetadata
                       /\ pendingLoads' = pendingLoads
              ELSE resultsViewMode' = resultsViewMode /\ resultsDisplayMode' = resultsDisplayMode
        /\ (KeyDisplay /\ lastResponseHeaders # NoHeaders /\ pendingQueries = {}) =>
              IF mode = "navigation"
              THEN LET s1 == [Cur EXCEPT !.resultsDisplayMode = nextDisplayMode(@)]
                       r == displayResults(s1, s1.lastResultData, s1.lastResultMetadata, FALSE)
                   IN  /\ resultsDisplayMode' = s1.resultsDisplayMode
                       /\ resultsContent' = r.resultsContent
                       /\ resultsLabel' = r.resultsLabel
                       /\ issued' = issued /\ pendingQueries' = pendingQueries
                       /\ pendingTables' = pendingTables /\ pendingMetadata' = pendingMetadata
                       /\ pendingLoads' = pendingLoads
              ELSE resultsViewMode' = resultsViewMode /\ resultsDisplayMode' = resultsDisplayMode
      ]_vars

endsWith(s, p) == Len(p) <= Len(s) /\ SubSeq(s, Len(s) - Len(p) + 1, Len(s)) = p
has(seq, x) == \E i \in 1..Len(seq) : seq[i] = x
IndexedNames(index) ==
    { index[i].ns : i \in 1..Len(index) }
    \cup UNION { { index[i].tables[j] : j \in 1..Len(index[i].tables) } : i \in 1..Len(index) }
IndexedPairs(index) ==
    UNION { { fullName(index[i].ns, index[i].tables[j]) : j \in 1..Len(index[i].tables) } :
            i \in 1..Len(index) }

\* C14: for every editor text that ends in "SELECT " and contains no FROM, and every
\* namespace index, the suggestion list computed and shown contains the wildcard *
\* and the keyword FROM, and no namespace name and no table name.
C14_SelectSuggestions ==
    [][ ( /\ Suggest \/ SuggestAuto
          /\ endsWith(editorValue, kwSELECT \o <<" ">>)
          /\ ~includes(toUpperCase(editorValue), kwFROM) ) =>
            /\ autocompleteVisible'
            /\ has(autocompleteItems', Star)
            /\ has(autocompleteItems', kwFROM)
            /\ \A i \in 1..Len(autocompleteItems') :
                  /\ autocompleteItems'[i] \notin IndexedNames(namespaces)
                  /\ autocompleteItems'[i] \notin IndexedPairs(namespaces)
      ]_vars

\* C15: for every editor text that ends in "FROM " and every namespace index, the
\* suggestion list computed and shown contains every indexed namespace.table pair
\* (the index here holds fewer pairs than the cap) and no SQL keyword.
C15_FromSuggestions ==
    [][ ( /\ Suggest \/ SuggestAuto
          /\ endsWith(editorValue, kwFROM \o <<" ">>) ) =>
            /\ \A pair \in IndexedPairs(namespaces) : has(autocompleteItems', pair)
            /\ \A i \in 1..Len(autocompleteItems') : ~has(sqlKeywords, autocompleteItems'[i])
      ]_vars

\* what C16 says the metadata filter returns for a tree and a term
RECURSIVE FilteredTree(_, _)
FilteredTree(x, term) ==
    IF x.t = "null" THEN JNull
    ELSE IF x.t \in {"string", "number", "boolean"}
    THEN IF includes(toLowerCase(String(x)), toLowerCase(term)) THEN x ELSE JNull
    ELSE LET n == Len(x.kv)
             child == [i \in 1..n |-> FilteredTree(x.kv[i].v, term)]
             named == [i \in 1..n |->
                         x.t = "object" /\ includes(toLowerCase(x.kv[i].k), toLowerCase(term))]
             kept == keepWhere([i \in 1..n |-> IF named[i] THEN x.kv[i]
                                               ELSE [k |-> x.kv[i].k, v |-> child[i]]],
                               [i \in 1..n |-> named[i] \/ child[i] # JNull])
         IN  IF kept = <<>> THEN JNull ELSE [t |-> x.t, s |-> <<>>, kv |-> kept]

ExampleFiltered ==
    JObj(<< KV(<<"i","d">>, JStr(<<"a","b","c">>)),
            KV(<<"n","e","s","t","e","d">>,
               JObj(<< KV(<<"k","e","e","p">>, JStr(<<"a","b","c","1","2","3">>)) >>)) >>)

\* C16: in metadata mode the filter computed for a non-blank term shows the tree FilteredTree
\* describes: a scalar leaf itself if its stringified form contains the term
\* (case-insensitively), an array as the list of its surviving filtered children, an
\* object with each key whose name contains the term kept with its original value and
\* each other key kept only with its surviving filtered value, and no match (null) when
\* nothing survives; {"id":"abc","nested":{"keep":"abc123","drop":"zzz"}} with "abc"
\* yields {"id":"abc","nested":{"keep":"abc123"}}.
C16_MetadataFilter ==
    [][ ( /\ SearchTimer
          /\ resultsDisplayMode = "metadata" /\ lastTableMetadata.present
          /\ trim(searchBoxValue) # <<>> ) =>
            LET e == FilteredTree(lastTableMetadata.fullMetadata, searchBoxValue)
            IN  /\ searchMatches' = IF e = JNull THEN <<>> ELSE <<0>>
                /\ resultsContent' =
                      IF e = JNull THEN Message("text", "No matching metadata fields")
                      ELSE Pane("metadata", "", <<e>>, NoMetadata, "", TRUE)
                /\ (lastTableMetadata.fullMetadata = ExampleTree /\ searchBoxValue = <<"a","b","c">>)
                      => e = ExampleFiltered
      ]_vars

\* the example tree has been filtered by "abc" and the pane shows the filtered tree
C16_Witness ==
    /\ searchActive /\ resultsDisplayMode = "metadata"
    /\ lastTableMetadata.fullMetadata = ExampleTree
    /\ searchTerm = <<"a","b","c">>
    /\ resultsContent = Pane("metadata", "", <<ExampleFiltered>>, NoMetadata, "", TRUE)

\* the field names of the stored rows, and the column part of a column:value term as typed
FieldNames == UNION {{lastResultData[j].kv[i].k : i \in 1..Len(lastResultData[j].kv)}
                        : j \in 1..Len(lastResultData)}
ColumnPart(term) == SubSeq(term, 1, firstOf(term, ":") - 1)

\* a filter step of the data pane for a non-blank term
DataFilterStep ==
    /\ SearchTimer
    /\ resultsDisplayMode = "data"
    /\ trim(searchBoxValue) # <<>>

\* the filter showed nothing: no rows, no matches, a count of 0
NothingShown ==
    /\ searchMatches' = <<>>
    /\ resultsContent'.rows = <<>>
    /\ resultsLabel'.n = 0 /\ resultsLabel'.idx = 0

\* C17 as stated: in data mode a column:value term (exactly one ':') whose column part
\* equals no field name of any row leaves no rows, no matches and a match count of 0.
C17_UnknownColumnExact ==
    [][ ( /\ DataFilterStep
          /\ hasColumnFilter(searchBoxValue)
          /\ ColumnPart(searchBoxValue) \notin FieldNames ) => NothingShown ]_vars

\* C17 amended: in data mode a column:value term (exactly one ':') whose column part,
\* trimmed and compared case-insensitively, equals no field name of any row leaves no
\* rows, no matches and a match count of 0.
C17_UnknownColumn ==
    [][ ( /\ DataFilterStep
          /\ hasColumnFilter(searchBoxValue)
          /\ \A f \in FieldNames : toLowerCase(f) # filterColumn(searchBoxValue) )
            => NothingShown ]_vars

\* the term "x:1" names no column of the stored rows and the filtered pane is empty
C17_Witness ==
    /\ searchActive /\ resultsDisplayMode = "data"
    /\ searchTerm = <<"x",":","1">>
    /\ Len(lastResultData) = 3
    /\ \A f \in FieldNames : toLowerCase(f) # <<"x">>
    /\ searchMatches = <<>> /\ resultsContent.rows = <<>>
    /\ resultsLabel.n = 0 /\ resultsLabel.idx = 0

\* some column name of the row contains the term, ignoring case
NameHasTerm(row, term) ==
    \E i \in 1..Len(row.kv) : includes(toLowerCase(row.kv[i].k), toLowerCase(term))

\* the stringified form of some value of the row contains the term, ignoring case
ValueHasTerm(row, term, nullsToo) ==
    \E i \in 1..Len(row.kv) :
        /\ nullsToo \/ row.kv[i].v.t # "null"
        /\ includes(toLowerCase(String(row.kv[i].v)), toLowerCase(term))

\* matches and the displayed rows are exactly the rows wanted, in their original order
ShowsExactly(wanted) ==
    /\ \A k \in 1..Len(searchMatches') : (searchMatches'[k] + 1) \in wanted
    /\ \A j \in wanted : \E k \in 1..Len(searchMatches') : searchMatches'[k] = j - 1
    /\ \A k \in 1..(Len(searchMatches') - 1) : searchMatches'[k] < searchMatches'[k + 1]
    /\ resultsContent'.rows = [k \in 1..Len(searchMatches') |-> lastResultData[searchMatches'[k] + 1]]

\* C18 as stated: in data mode with a term that carries no column filter, row i matches
\* iff some column name or the stringified form of some value (null included) contains
\* the term case-insensitively; matches is the ascending list of the original indices
\* of the matching rows and the displayed rows are those rows in their original order.
C18_RowMatchAnyValue ==
    [][ ( DataFilterStep /\ ~hasColumnFilter(searchBoxValue) ) =>
            ShowsExactly({j \in 1..Len(lastResultData) :
                            \/ NameHasTerm(lastResultData[j], searchBoxValue)
                            \/ ValueHasTerm(lastResultData[j], searchBoxValue, TRUE)})
      ]_vars

\* C18 amended: in data mode with a term that carries no column filter, row i matches
\* iff some column name or the stringified form of some non-null value contains the
\* term case-insensitively; matches is the ascending list of the original indices of
\* the matching rows and the displayed rows are those rows in their original order.
C18_RowMatchNonNull ==
    [][ ( DataFilterStep /\ ~hasColumnFilter(searchBoxValue) ) =>
            ShowsExactly({j \in 1..Len(lastResultData) :
                            \/ NameHasTerm(lastResultData[j], searchBoxValue)
                            \/ ValueHasTerm(lastResultData[j], searchBoxValue, FALSE)})
      ]_vars

\* the term "nul" has been searched in rows one of which holds a null: only the row
\* holding the string "Null" is shown
C18_Witness ==
    /\ searchActive /\ resultsDisplayMode = "data"
    /\ searchTerm = <<"n","u","l">>
    /\ lastResultData = RowsMixed
    /\ searchMatches = <<1>>
    /\ resultsContent.rows = <<RowsMixed[2]>>

\* the results pane shows an inline error message
ShowsError == resultsContent.kind = "error" /\ resultsLabel = PlainLabel("error")

\* C19: every failure of a collaborator request (query execution, namespace listing,
\* table listing, table-metadata fetch) leaves an inline error message in the results
\* pane and leaves the process running.
C19_FailuresShownInline ==
    [][ ( \/ ExecuteQueryFails \/ ListNamespacesFails \/ LoadListTablesFails
          \/ ListTablesFails \/ GetTableMetadataFails )
            => ( running' /\ ShowsError' ) ]_vars

\* the rows stored by the last response cannot be rendered
StoredRowsBroken == renderThrows(lastResultData)

\* a step that renders the stored rows: the t key, the v key coming back to the data
\* pane, the search timer, and escape closing the search box
RendersStoredRows ==
    \/ KeyView /\ mode = "navigation" /\ resultsDisplayMode = "data"
    \/ KeyDisplay /\ mode = "navigation" /\ resultsDisplayMode = "metadata"
    \/ SearchTimer /\ resultsDisplayMode = "data"
    \/ KeyEscape /\ focused = "searchBox" /\ resultsDisplayMode = "data"

\* C20: whenever rendering a stored result fails because the data has an unexpected
\* shape, the failure is caught and the results pane shows a fallback message, for
\* every trigger of a render (a query response, the t and v keys, search filtering,
\* closing search): the process keeps running and the pane is not left as it was.
C20_RenderFailuresCaught ==
    [][ ( \/ BrokenRowsReply /\ resultsDisplayMode = "data"
          \/ RendersStoredRows /\ StoredRowsBroken )
            => ( running' /\ ShowsError' ) ]_vars

\* C21: when copying to the clipboard fails, the failure is reported as a status
\* message that reverts automatically after a short delay to what the results pane
\* showed before, and the process keeps running: the step that reports the failure
\* keeps the pane's content, writes the message, and arms the timer that reverts it.
C21_CopyFailureReverts ==
    [][ CopyFails => ( /\ running'
                       /\ labelTimers' = labelTimers + 1
                       /\ resultsContent' = resultsContent ) ]_vars

\* C22: when a namespace whose tables are not yet indexed is expanded and the
\* table-list request fails, an inline error is shown and the sidebar is unchanged: the
\* namespace entry keeps its collapsed marker and no table entry is inserted.
C22_FailedExpandStaysCollapsed ==
    [][ ListTablesFails => ( ShowsError' /\ sidebarItems' = sidebarItems ) ]_vars

\* a query execution or a table-schema fetch is awaiting its response
InFlight == pendingQueries # {} \/ pendingMetadata # {}

\* the results pane shows the in-progress label and content of such an operation
ShowsProgress ==
    \/ /\ resultsContent = Message("text", "Executing query...")
       /\ resultsLabel = PlainLabel("executing")
    \/ /\ resultsContent = Message("text", "Loading table schema...")
       /\ resultsLabel = PlainLabel("loading schema")

\* C23: from the step in which a query execution or table-schema fetch begins until the
\* step in which its response is handled, the results pane keeps the in-progress label
\* and content (a step that neither begins nor ends such an operation leaves them
\* alone), and the step that handles the response replaces label and content together.
C23_ProgressBracket ==
    [][ /\ ( /\ InFlight /\ ShowsProgress
             /\ pendingQueries' = pendingQueries /\ pendingMetadata' = pendingMetadata )
             => ( resultsContent' = resultsContent /\ resultsLabel' = resultsLabel )
        /\ ( /\ ShowsProgress
             /\ \/ pendingQueries' # pendingQueries /\ pendingQueries' \subseteq pendingQueries
                \/ pendingMetadata' # pendingMetadata /\ pendingMetadata' \subseteq pendingMetadata )
             => ( resultsContent' # resultsContent /\ resultsLabel' # resultsLabel )
      ]_vars

\* C24: if query A is issued and query B is issued before A's response arrives, the
\* stored and displayed result ends up B's whatever order the responses arrive in: the
\* response of an execution that is no longer the most recently issued one is dropped.
\* (Where every request issued is a query execution, the most recent one is numbered
\* issued.)
C24_StaleQueryResponseDropped ==
    [][ \A p \in pendingQueries : \A reply \in QueryResponses :
            ( QueryReply(p, reply) /\ p.id < issued ) =>
                UNCHANGED << lastResultData, lastResultMetadata, lastResultSchema,
                             lastResponseHeaders, resultsContent, resultsLabel >> ]_vars

\* C25: if table A is selected and table B is selected before A's metadata response
\* arrives, the cached TableMetadata slot and the schema shown end up B's whatever order
\* the responses arrive in: a response for a table that is no longer the most recently
\* selected one (a fetch for another table was begun after it) changes neither the
\* slot nor the pane.
C25_StaleMetadataResponseDropped ==
    [][ \A p \in pendingMetadata :
          \A reply \in {TableMetadata(p.ns, p.table), NoTableMetadata} :
            ( /\ MetadataReply(p, reply)
              /\ \E q \in pendingMetadata :
                    q.id > p.id /\ (q.ns # p.ns \/ q.table # p.table) ) =>
                UNCHANGED << lastTableMetadata, resultsContent, resultsLabel >> ]_vars

\* C26: if the user expands a namespace while a namespace/table prefetch (the startup
\* load or a refresh) is outstanding, no second table-list request is issued for that
\* namespace: a step taken while a prefetch is outstanding begins no table-list request.
C26_NoDuplicateTableRequest ==
    [][ pendingLoads # {} => pendingTables' \subseteq pendingTables ]_vars

\* the namespace entry a table entry at position i hangs under: the nearest entry
\* before it that is not a table entry (0 when there is none)
ParentOf(i) ==
    IF \E j \in 1..(i - 1) : ~isTableItem(sidebarItems[j])
    THEN CHOOSE j \in 1..(i - 1) :
            /\ ~isTableItem(sidebarItems[j])
            /\ \A k \in (j + 1)..(i - 1) : isTableItem(sidebarItems[k])
    ELSE 0

\* C30: in every reachable state of the sidebar list, also after a pending table-list
\* response is handled once other operations have changed the list, every table entry
\* lies in the run directly after its own parent's expanded namespace entry, and each
\* namespace appears exactly once (no entry was overwritten or left undefined).
C30_SidebarWellFormed ==
    /\ \A i \in 1..Len(sidebarItems) :
          isTableItem(sidebarItems[i]) =>
              /\ ParentOf(i) # 0
              /\ isExpandedItem(sidebarItems[ParentOf(i)])
              /\ \E k \in 1..Len(CatalogTables(sidebarItems[ParentOf(i)].name)) :
                    CatalogTables(sidebarItems[ParentOf(i)].name)[k] = sidebarItems[i].name
    /\ \A i \in 1..Len(sidebarItems) : sidebarItems[i] # HoleItem
    /\ \A i, j \in 1..Len(sidebarItems) :
          ( /\ i # j
            /\ ~isTableItem(sidebarItems[i]) /\ ~isTableItem(sidebarItems[j]) )
              => sidebarItems[i].name # sidebarItems[j].name


\* the widths the data pane is rendered at
MaxPaneWidth == 30
PaneWidths == 0..MaxPaneWidth

ShowsRows == running /\ resultsContent.kind = "rows"
NullCells(data) ==
    { ic \in (1..Len(data)) \X (1..Len(columnsOf(data))) :
        fieldOf(data[ic[1]], columnsOf(data)[ic[2]]).t = "null" }
ListValueOf(data, i, c) ==
    LET lines == listLines(data)
    IN  lines[CHOOSE k \in 1..Len(lines) :
                 /\ lines[k].kind = "field" /\ lines[k].row = i
                 /\ Cardinality({m \in 1..k : lines[m].kind = "field" /\ lines[m].row = i}) = c].value

\* C27: whenever the data pane shows rows, the list layout has exactly one block (one
\* header line) per row, and every null field is shown as the NULL marker, in the list
\* layout and in the cell of the table layout at every width of the pane.
C27_NullMarkerEveryWidth ==
    ShowsRows =>
        LET data == resultsContent.rows
        IN  /\ Cardinality({k \in 1..Len(listLines(data)) : listLines(data)[k].kind = "header"})
                 = Len(data)
            /\ \A ic \in NullCells(data) :
                  /\ ListValueOf(data, ic[1], ic[2]) = NullMarker
                  /\ \A width \in PaneWidths :
                        startsWith(tableRows(data, width)[ic[1]][ic[2]], NullMarker)

\* two rows with a null field are shown in the table layout
C27_Witness ==
    /\ ShowsRows /\ resultsContent.view = "table"
    /\ Len(resultsContent.rows) = 2
    /\ NullCells(resultsContent.rows) # {}


\* enter on a table entry of the sidebar while its namespace is the current one
TableSelected ==
    /\ mode = "navigation" /\ focused = "sidebar"
    /\ sidebarSelected \in 1..Len(sidebarItems)
    /\ isTableItem(sidebarItems[sidebarSelected])
    /\ currentNamespace # NoNamespace
SelectedReference == fullName(currentNamespace, sidebarItems[sidebarSelected].name)
BeginsWithSelect(text) ==
    Len(text) >= 6 /\ toLowerCase(SubSeq(text, 1, 6)) = << "s","e","l","e","c","t" >>

\* C28: selecting table reference R makes the editor text "SELECT * FROM R" when the
\* trimmed text is empty or does not begin, in any letter case, with SELECT, and the
\* trimmed text, one space and R otherwise; the active tab becomes the query tab.
C28_InsertTableReference ==
    [][ (KeyRight /\ TableSelected) =>
          /\ activeTab' = "query"
          /\ editorValue' =
                IF trim(editorValue) = <<>> \/ ~BeginsWithSelect(trim(editorValue))
                THEN << "S","E","L","E","C","T"," ","*"," ","F","R","O","M"," " >>
                        \o SelectedReference
                ELSE trim(editorValue) \o << " " >> \o SelectedReference ]_vars

\* a reference was appended to a text typed with spaces around it
C28_Witness ==
    /\ activeTab = "query"
    /\ \E ns \in NamespaceNames : \E i \in 1..Len(sidebarItems) :
          /\ isTableItem(sidebarItems[i])
          /\ editorValue = << "s","e","L","e","c","t"," ","a"," " >>
                              \o fullName(ns, sidebarItems[i].name)


\* the text before the maximal trailing run of non-whitespace characters
PrefixOf(q) ==
    SubSeq(q, 1, CHOOSE n \in 0..Len(q) :
                    /\ \A j \in (n + 1)..Len(q) : ~IsSpace(q[j])
                    /\ n > 0 => IsSpace(q[n]))
Qualified(sug) == \E j \in 1..Len(sug) : sug[j] = "."
\* no column stands between SELECT and FROM, or the text has no SELECT
NoColumnList(q) ==
    \/ \E i \in 1..Len(q) : \E r \in 1..Len(q) : selectFromAt(q, i, r)
    \/ ~includes(toUpperCase(q), kwSELECT)
HasWildcardSelect(q) ==
    includes(toUpperCase(q), << "S","E","L","E","C","T"," ","*"," ","F","R","O","M" >>)

\* C29: accepting suggestion s on the text p + w, w the trailing run of non-whitespace
\* characters, gives p + s (and the space that ends the word); only when s is a
\* namespace.table reference and the text has no column list, the text gets a wildcard
\* select clause and ends with s.
C29_AcceptReplacesLastWord ==
    [][ \A i \in 1..Len(autocompleteItems) :
          Accept(i) =>
            LET sug == autocompleteItems[i]
            IN  IF Qualified(sug) /\ NoColumnList(editorValue)
                THEN /\ HasWildcardSelect(editorValue')
                     /\ Len(editorValue') > Len(sug)
                     /\ SubSeq(editorValue', Len(editorValue') - Len(sug), Len(editorValue'))
                          = sug \o << " " >>
                ELSE editorValue' = PrefixOf(editorValue) \o sug \o << " " >> ]_vars


\* a step that stores a new result, changes the display mode or changes the view mode
StoresResult ==
    \E p \in pendingQueries : \E reply \in QueryResponses \cup {QueryOk(RowsBroken, SchemaA, HeadersA, 5)} :
        reply.error = "" /\ QueryReply(p, reply)
ChangesWhatIsShown ==
    \/ StoresResult
    \/ resultsDisplayMode' # resultsDisplayMode
    \/ resultsViewMode' # resultsViewMode

\* C31: a step that stores a query response, changes the display mode (v) or changes
\* the view mode (t) resets the search state: after it the matches and the term are empty.
C31_SearchResetOnChange ==
    [][ ChangesWhatIsShown => (searchMatches' = <<>> /\ searchTerm' = <<>>) ]_vars


\* C32: whenever there is no match, currentMatchIndex is -1.
C32_NoMatchIndex == searchMatches = <<>> => currentMatchIndex = -1


\* C33: at most one search timer is pending; a keystroke in the search box leaves exactly
\* the timer it has just set pending, the one before it being cleared; and the filter a
\* timer computes when it fires is the one for the value the search box has at that moment.
C33_Debounce ==
    [][ /\ Cardinality(searchTimers') <= 1
        /\ FilterInput => ( searchTimeout' # NoTimer /\ searchTimers' = {searchTimeout'} )
        /\ SearchTimer =>
              /\ searchTerm' = searchBoxValue
              /\ searchTimers' = {}
              /\ Cur' = [filterResults([Cur EXCEPT !.searchTerm = searchBoxValue,
                                                   !.searchTimers = {}])
                           EXCEPT !.searchTimeout = NoTimer] ]_vars

\* a term was filtered for, and a later keystroke changed the value and set a timer
C33_Witness ==
    /\ running /\ searchActive /\ searchTerm # <<>>
    /\ searchBoxValue # searchTerm /\ searchBoxValue # <<>>
    /\ searchTimeout # NoTimer /\ searchTimers = {searchTimeout}


\* the plain text of a value, and of the cell the table layout shows for it
PlainOf(value) == stripTags(formatValueWithColor(value))
EndsInEllipsis(text) == Len(text) >= 3 /\ SubSeq(text, Len(text) - 2, Len(text)) = Ellipsis

\* C34: in the table layout, at every pane width that leaves a column room for an
\* ellipsis and a character, every header cell and every data cell occupies exactly
\* floor((W - 4) / c) plain characters: a value longer than that is cut and ends in an
\* ellipsis, any other value is shown whole and padded.
C34_FixedColumnWidth ==
    (ShowsRows /\ resultsContent.view = "table") =>
        LET data == resultsContent.rows
            columns == columnsOf(data)
        IN  \A width \in PaneWidths :
              LET columnWidth == (width - 4) \div Len(columns)
              IN  columnWidth >= 4 =>
                    \A c \in 1..Len(columns) :
                       /\ Len(tableHeader(data, width)[c]) = columnWidth
                       /\ \A i \in 1..Len(data) :
                            LET plain == PlainOf(fieldOf(data[i], columns[c]))
                                cell == stripTags(tableRows(data, width)[i][c])
                            IN  /\ Len(cell) = columnWidth
                                /\ IF Len(plain) > columnWidth
                                   THEN EndsInEllipsis(cell)
                                   ELSE cell = padEnd(plain, columnWidth)


\* C35: in insert mode the active tab is the query tab.
C35_InsertOnQueryTab == (running /\ mode = "insert") => activeTab = "query"


\* C36: whenever there are matches, currentMatchIndex is the index of one of them.
C36_MatchIndexInRange ==
    Len(searchMatches) > 0 =>
        ( 0 <= currentMatchIndex /\ currentMatchIndex < Len(searchMatches) )

\* several matches, and n or N has moved the current match away from the first
C36_Witness ==
    /\ running /\ searchActive /\ Len(searchMatches) > 1 /\ currentMatchIndex > 0


\* the steps of a search: the timer computes a filter, n or N moves to another match,
\* escape or Ctrl+C in the search box closes the search
SearchStep ==
    \/ SearchTimer
    \/ KeyNextMatch
    \/ KeyPrevMatch
    \/ focused = "searchBox" /\ KeyEscape

\* C37: computing a filter, navigating the matches and closing the search leave the
\* stored result (rows, metadata, schema, response headers, table metadata) unchanged.
C37_SearchKeepsStore ==
    [][ \/ UNCHANGED << lastResultData, lastResultMetadata, lastResultSchema,
                        lastResponseHeaders, lastTableMetadata >>
        \/ ~SearchStep ]_vars

\* a filter shows fewer rows than are stored
C37_Witness ==
    /\ running /\ searchActive /\ searchTerm # <<>>
    /\ resultsContent.kind = "rows"
    /\ Len(searchMatches) > 0
    /\ Len(resultsContent.rows) < Len(lastResultData)


\* the stored result, and the result a response carries
StoredResult == << lastResultData, lastResultMetadata, lastResultSchema, lastResponseHeaders >>
ResultOf(reply) == << reply.data, reply.metadata, reply.schema, reply.headers >>

\* C38: the stored rows, metadata, schema and headers are those of one successful
\* execution: the step that handles a successful response replaces all four by the
\* response's, the step that handles an error response changes none of them, and no
\* other step changes them.
C38_StoredResultOfOneExecution ==
    [][ /\ \A p \in pendingQueries : \A reply \in QueryResponses :
              QueryReply(p, reply) =>
                 StoredResult' = IF reply.error = "" THEN ResultOf(reply) ELSE StoredResult
        /\ StoredResult' # StoredResult =>
              \E reply \in QueryResponses : reply.error = "" /\ StoredResult' = ResultOf(reply) ]_vars

\* an error response was handled while the result of an earlier execution is stored
C38_Witness ==
    /\ running /\ lastEvent.kind = "error"
    /\ resultsContent.kind = "error"
    /\ StoredResult = ResultOf(QueryOk(Rows3, SchemaA, HeadersA, 5))


IsPrefix(a, b) == Len(a) <= Len(b) /\ SubSeq(b, 1, Len(a)) = a

\* C39: the in-memory history only grows at its end, and only in the step that handles
\* a response without error, by the query of that execution: pressing execute (on an
\* empty editor too), an error response and the client's failures leave it unchanged,
\* and the append stands whether or not the write to the history file succeeds.
C39_HistoryAppendOnly ==
    [][ /\ IsPrefix(queryHistory, queryHistory')
        /\ \A p \in pendingQueries : \A reply \in QueryResponses :
              QueryReply(p, reply) =>
                 queryHistory' = IF reply.error = "" THEN Append(queryHistory, p.query)
                                 ELSE queryHistory
        /\ queryHistory' # queryHistory =>
              \E p \in pendingQueries : \E reply \in QueryResponses :
                  reply.error = "" /\ QueryReply(p, reply) ]_vars

\* with --history, two queries were executed and the write of one of them failed
C39_Witness ==
    /\ running /\ historyEnabled
    /\ Len(queryHistory) = 2 /\ Len(historyFile) = 1


\* C40: the autocomplete box is hidden in every state the key bindings, the listeners,
\* the timers and the response handlers reach.
C40_AutocompleteNeverShown == ~autocompleteVisible

\* tab was pressed in the query editor on a text that has suggestions
C40_Witness ==
    /\ running /\ lastEvent.kind = "tab" /\ focused = "queryEditor"
    /\ Len(suggestionsFor(editorValue, namespaces)) > 0
    /\ namespaces # <<>>

====
